---- MODULE Spec2Model ----
(***************************************************************************)
(* Kex: scanner, recursive-descent parser, tree-walking interpreter and    *)
(* the read-evaluate-print loop that drives them.                          *)
(*                                                                         *)
(* Two implementations live in the repository:                             *)
(*   src/kex_main.py   the single-file interpreter (Lexer, Parser,         *)
(*                     Interpreter, main)                                  *)
(*   src/Kex/*.py      the package (kex_lexer, kex_parser,                 *)
(*                     kex_interpreter, kex_main)                          *)
(* Definitions without a prefix model src/kex_main.py; definitions that    *)
(* start with Pkg model the package.                                       *)
(*                                                                         *)
(* A source text is a sequence of one-character strings.  Python values    *)
(* are tagged records; a float is an exact fraction n/d in lowest terms    *)
(* (the literals used are dyadic, so sums and products are exact).         *)
(***************************************************************************)
EXTENDS Integers, Sequences, FiniteSets, TLC

(* ------------------------------------------------------------------ *)
(* Python values                                                        *)
(* ------------------------------------------------------------------ *)

NoneV == [t |-> "none"]
IntV(i) == [t |-> "int", i |-> i]
BoolV(b) == [t |-> "bool", b |-> b]
StrV(s) == [t |-> "str", s |-> s]
ListV(l) == [t |-> "list", l |-> l]
DictV(kv) == [t |-> "dict", kv |-> kv]

Abs(a) == IF a < 0 THEN -a ELSE a

RECURSIVE GCD(_, _)
GCD(a, b) == IF b = 0 THEN a ELSE GCD(b, a % b)

\* the float n/d, in lowest terms with d > 0
FloatV(n, d) ==
  LET g == GCD(Abs(n), Abs(d))
      sgn == IF d < 0 THEN -1 ELSE 1
  IN [t |-> "float", n |-> (sgn * n) \div g, d |-> Abs(d) \div g]

\* isinstance(v, (int, float)): bool is a subclass of int in Python
IsNumber(v) == v.t \in {"int", "float", "bool"}

\* the numerator and denominator of a numeric value (True is 1, False is 0)
NumN(v) == IF v.t = "int" THEN v.i ELSE IF v.t = "bool" THEN (IF v.b THEN 1 ELSE 0) ELSE v.n
NumD(v) == IF v.t = "float" THEN v.d ELSE 1

\* Python == between two values, as far as this program compares them:
\* numbers compare by numeric value whatever their type
PyEq(a, b) ==
  IF IsNumber(a) /\ IsNumber(b) THEN NumN(a) * NumD(b) = NumN(b) * NumD(a)
  ELSE a = b

\* Python truth value of a value (bool(v))
PyTruthy(v) ==
  CASE v.t = "none" -> FALSE
    [] v.t = "bool" -> v.b
    [] v.t = "int" -> v.i # 0
    [] v.t = "float" -> v.n # 0
    [] v.t = "str" -> v.s # <<>>
    [] v.t = "list" -> v.l # <<>>
    [] v.t = "dict" -> v.kv # <<>>

\* left + right, left - right, left * right on numbers: int unless a float is involved
PyAdd(a, b) ==
  IF a.t = "float" \/ b.t = "float"
  THEN FloatV(NumN(a) * NumD(b) + NumN(b) * NumD(a), NumD(a) * NumD(b))
  ELSE IntV(NumN(a) + NumN(b))

PySub(a, b) ==
  IF a.t = "float" \/ b.t = "float"
  THEN FloatV(NumN(a) * NumD(b) - NumN(b) * NumD(a), NumD(a) * NumD(b))
  ELSE IntV(NumN(a) - NumN(b))

PyMul(a, b) ==
  IF a.t = "float" \/ b.t = "float"
  THEN FloatV(NumN(a) * NumN(b), NumD(a) * NumD(b))
  ELSE IntV(NumN(a) * NumN(b))

\* left / right for a nonzero right: Python 3 true division, always a float
PyTrueDiv(a, b) == FloatV(NumN(a) * NumD(b), NumD(a) * NumN(b))

(* ------------------------------------------------------------------ *)
(* Exceptions and results                                               *)
(* ------------------------------------------------------------------ *)

\* an exception: its Python class, a tag for its message, the stage that raised it
Exc(type, what, stage) == [type |-> type, what |-> what, stage |-> stage]

(* ------------------------------------------------------------------ *)
(* Characters                                                           *)
(* ------------------------------------------------------------------ *)

NoChar == "<None>"

Digits == {"0", "1", "2", "3", "4", "5", "6", "7", "8", "9"}

Lower == {"a", "b", "c", "d", "e", "f", "g", "h", "i", "j", "k", "l", "m",
          "n", "o", "p", "q", "r", "s", "t", "u", "v", "w", "x", "y", "z"}

Upper == {"A", "B", "C", "D", "E", "F", "G", "H", "I", "J", "K", "L", "M",
          "N", "O", "P", "Q", "R", "S", "T", "U", "V", "W", "X", "Y", "Z"}

IsSpace(c) == c \in {" ", "\t", "\n", "\r"}
IsDigit(c) == c \in Digits
IsAlpha(c) == c \in Lower \cup Upper
IsAlnum(c) == IsAlpha(c) \/ IsDigit(c)

DigitVal(c) ==
  CASE c = "0" -> 0 [] c = "1" -> 1 [] c = "2" -> 2 [] c = "3" -> 3 [] c = "4" -> 4
    [] c = "5" -> 5 [] c = "6" -> 6 [] c = "7" -> 7 [] c = "8" -> 8 [] c = "9" -> 9

\* str.lower() on one character
LowerChar(c) ==
  CASE c = "E" -> "e" [] c = "X" -> "x" [] c = "I" -> "i" [] c = "T" -> "t"
    [] OTHER -> c

\* int(result) for a run of decimal digits
RECURSIVE PyInt(_)
PyInt(ds) ==
  IF ds = <<>> THEN 0
  ELSE 10 * PyInt(SubSeq(ds, 1, Len(ds) - 1)) + DigitVal(ds[Len(ds)])

RECURSIVE Pow10(_)
Pow10(k) == IF k = 0 THEN 1 ELSE 10 * Pow10(k - 1)

DotCount(cs) == Cardinality({k \in 1..Len(cs) : cs[k] = "."})

\* float(result) for a run of digits and dots: a value, or ValueError when the
\* run has more than one dot or no digit at all
PyFloat(cs) ==
  IF DotCount(cs) # 1 \/ Len(cs) = 1 THEN [ok |-> FALSE, v |-> NoneV]
  ELSE LET dot == CHOOSE k \in 1..Len(cs) : cs[k] = "."
           whole == SubSeq(cs, 1, dot - 1)
           frac == SubSeq(cs, dot + 1, Len(cs))
       IN [ok |-> TRUE,
           v |-> FloatV(PyInt(whole) * Pow10(Len(frac)) + PyInt(frac), Pow10(Len(frac)))]

(* ------------------------------------------------------------------ *)
(* Lexer (src/kex_main.py)                                              *)
(* A lexer state is [text, pos, line, column]; pos counts from 0 as in  *)
(* the code and current_char is the character at pos, or None.          *)
(* ------------------------------------------------------------------ *)

Token(type, value, line, column) ==
  [type |-> type, value |-> value, line |-> line, column |-> column]

LexerInit(text) == [text |-> text, pos |-> 0, line |-> 1, column |-> 1]

CurrentChar(s) == IF s.pos < Len(s.text) THEN s.text[s.pos + 1] ELSE NoChar

Advance(s) ==
  IF CurrentChar(s) = "\n"
  THEN [s EXCEPT !.line = s.line + 1, !.column = 1, !.pos = s.pos + 1]
  ELSE [s EXCEPT !.column = s.column + 1, !.pos = s.pos + 1]

Peek(s) == IF s.pos + 1 < Len(s.text) THEN s.text[s.pos + 2] ELSE NoChar

RECURSIVE SkipWhitespace(_)
SkipWhitespace(s) ==
  IF CurrentChar(s) # NoChar /\ IsSpace(CurrentChar(s)) THEN SkipWhitespace(Advance(s)) ELSE s

\* while current_char is not None and current_char != '\n': advance()
RECURSIVE SkipToNewline(_)
SkipToNewline(s) ==
  IF CurrentChar(s) # NoChar /\ CurrentChar(s) # "\n" THEN SkipToNewline(Advance(s)) ELSE s

\* a loop that would end the block comment at the first * it meets
RECURSIVE SkipBlock_EndsAtStar(_)
SkipBlock_EndsAtStar(s) ==
  IF CurrentChar(s) = NoChar THEN s
  ELSE IF CurrentChar(s) = "*" THEN Advance(s)
  ELSE SkipBlock_EndsAtStar(Advance(s))

\* the loop of the block comment: up to and including the closing */, or to the end
RECURSIVE SkipBlock(_)
SkipBlock(s) ==
  IF CurrentChar(s) = NoChar THEN s
  ELSE IF CurrentChar(s) = "*" /\ Peek(s) = "/" THEN Advance(Advance(s))
  ELSE SkipBlock(Advance(s))

\* a scanner step's outcome: a token (or none, or an exception) and the state after it
Scanned(tok, s) == [tok |-> tok, s |-> s]
NoToken == [type |-> "<no token>"]
Raised(exc) == [type |-> "<raise>", exc |-> exc]

SkipComment(s) ==
  IF CurrentChar(s) = "/"
  THEN LET s1 == Advance(s) IN
       IF CurrentChar(s1) = "/" THEN Scanned(NoToken, Advance(SkipToNewline(s1)))
       ELSE IF CurrentChar(s1) = "*" THEN Scanned(NoToken, SkipBlock(Advance(s1)))
       ELSE Scanned(Token("DIV", StrV(<<"/">>), s1.line, s1.column - 1), s1)
  ELSE Scanned(NoToken, s)

\* the characters number() consumes from s: digits and dots
RECURSIVE NumberRun(_)
NumberRun(s) ==
  IF CurrentChar(s) # NoChar /\ (IsDigit(CurrentChar(s)) \/ CurrentChar(s) = ".")
  THEN <<CurrentChar(s)>> \o NumberRun(Advance(s))
  ELSE <<>>

RECURSIVE AdvanceBy(_, _)
AdvanceBy(s, k) == IF k = 0 THEN s ELSE AdvanceBy(Advance(s), k - 1)

Number(s) ==
  LET result == NumberRun(s)
      s1 == AdvanceBy(s, Len(result))
  IN IF \E k \in 1..Len(result) : result[k] = "."
     THEN IF PyFloat(result).ok
          THEN Scanned(Token("FLOAT", PyFloat(result).v, s1.line, s.pos), s1)
          ELSE Scanned(Raised(Exc("ValueError", "could not convert string to float", "scan")), s1)
     ELSE Scanned(Token("INTEGER", IntV(PyInt(result)), s1.line, s.pos), s1)

\* the characters string() collects after the opening quote
RECURSIVE StringRun(_)
StringRun(s) ==
  IF CurrentChar(s) # NoChar /\ CurrentChar(s) # "\""
  THEN <<CurrentChar(s)>> \o StringRun(Advance(s))
  ELSE <<>>

String(s) ==
  LET s1 == Advance(s)
      result == StringRun(s1)
      s2 == AdvanceBy(s1, Len(result))
  IN IF CurrentChar(s2) = NoChar
     THEN Scanned(Raised(Exc("Exception", "Unterminated string", "scan")), s2)
     ELSE Scanned(Token("STRING", StrV(result), Advance(s2).line, s.pos), Advance(s2))

RECURSIVE IdentifierRun(_)
IdentifierRun(s) ==
  IF CurrentChar(s) # NoChar /\ (IsAlnum(CurrentChar(s)) \/ CurrentChar(s) = "_")
  THEN <<CurrentChar(s)>> \o IdentifierRun(Advance(s))
  ELSE <<>>

Identifier(s) ==
  LET result == IdentifierRun(s)
      s1 == AdvanceBy(s, Len(result))
  IN IF result = <<"t", "r", "u", "e">>
     THEN Scanned(Token("BOOLEAN", BoolV(TRUE), s1.line, s.pos), s1)
     ELSE IF result = <<"f", "a", "l", "s", "e">>
     THEN Scanned(Token("BOOLEAN", BoolV(FALSE), s1.line, s.pos), s1)
     ELSE Scanned(Token("IDENTIFIER", StrV(result), s1.line, s.pos), s1)

\* the single-character tokens of get_next_token
SingleCharType(c) ==
  CASE c = "=" -> "ASSIGN" [] c = "+" -> "PLUS" [] c = "-" -> "MINUS" [] c = "*" -> "MUL"
    [] c = "(" -> "LPAREN" [] c = ")" -> "RPAREN" [] c = "[" -> "LBRACKET"
    [] c = "]" -> "RBRACKET" [] c = "{" -> "LBRACE" [] c = "}" -> "RBRACE"
    [] c = "," -> "COMMA" [] c = ":" -> "COLON" [] OTHER -> "<none>"

\* EndOfInput that moves the cursor on
EndOfInput_Advancing(s) == Scanned(Token("EOF", NoneV, s.line, s.column), Advance(s))

\* the return after the loop of get_next_token: the EOF token, the lexer as it is
EndOfInput(s) == Scanned(Token("EOF", NoneV, s.line, s.column), s)

RECURSIVE GetNextToken(_)
GetNextToken(s) ==
  LET c == CurrentChar(s) IN
  IF c = NoChar THEN EndOfInput(s)
  ELSE IF IsSpace(c) THEN GetNextToken(SkipWhitespace(s))
  ELSE IF c = "/"
  THEN LET r == SkipComment(s) IN IF r.tok.type # NoToken.type THEN r ELSE GetNextToken(r.s)
  ELSE IF IsDigit(c) \/ c = "." THEN Number(s)
  ELSE IF c = "\"" THEN String(s)
  ELSE IF IsAlpha(c) \/ c = "_" THEN Identifier(s)
  ELSE IF SingleCharType(c) # "<none>"
  THEN Scanned(Token(SingleCharType(c), StrV(<<c>>), s.line, s.column), Advance(s))
  ELSE Scanned(Raised(Exc("Exception", "Invalid character", "scan")), s)

\* Every token the lexer hands out from state s when it is asked again and again,
\* each with the lexer state after it: up to the first EOF or the first exception.
\* The parser pulls tokens one at a time; entry k is what its k-th pull returns.
RECURSIVE TokenStream(_)
TokenStream(s) ==
  LET r == GetNextToken(s) IN
  IF r.tok.type \in {"EOF", "<raise>"} THEN <<r>> ELSE <<r>> \o TokenStream(r.s)

(* ------------------------------------------------------------------ *)
(* AST (src/kex_main.py)                                                *)
(* ------------------------------------------------------------------ *)

\* what a method returns when it falls off its end
NoneNode == [k |-> "None"]
Num(token) == [k |-> "Num", value |-> token.value]
Var(token) == [k |-> "Var", value |-> token.value]
BinOp(left, op, right) == [k |-> "BinOp", left |-> left, op |-> op, right |-> right]
Assign(left, op, right) == [k |-> "Assign", left |-> left, op |-> op, right |-> right]
ListExpr(elements) == [k |-> "ListExpr", elements |-> elements]
DictExpr(pairs) == [k |-> "DictExpr", pairs |-> pairs]

(* ------------------------------------------------------------------ *)
(* Parser (src/kex_main.py)                                             *)
(* ts is the token stream of the lexer and i the number of tokens the   *)
(* parser has pulled: current_token is Handed(ts, i).tok.  A method     *)
(* returns [st, node, i, exc]: st is "ok" (node built, lookahead at i), *)
(* "raise" (exc raised after i pulls) or "hang" (the method never       *)
(* returns).                                                            *)
(* ------------------------------------------------------------------ *)

Ok(node, i) == [st |-> "ok", node |-> node, i |-> i, exc |-> NoneV]
Raise(exc, i) == [st |-> "raise", node |-> NoneNode, i |-> i, exc |-> exc]
Hang(i) == [st |-> "hang", node |-> NoneNode, i |-> i, exc |-> NoneV]

\* what the i-th call of get_next_token since the reset gives: the entries of the
\* stream, and the EOF that ends it again for every later call
Handed(ts, i) == ts[IF i <= Len(ts) THEN i ELSE Len(ts)]

CurrentToken(ts, i) == Handed(ts, i).tok

\* Parser.error
ParserError(i) == Raise(Exc("Exception", "Invalid syntax", "parse"), i)

\* the pull lexer.get_next_token() after i pulls: the next entry of the stream; once
\* EOF has been returned the lexer returns it again without moving, and the pull
\* is counted all the same
Pull(ts, i) ==
  IF i < Len(ts)
  THEN IF ts[i + 1].tok.type = "<raise>" THEN Raise(ts[i + 1].tok.exc, i + 1)
       ELSE Ok(NoneNode, i + 1)
  ELSE Ok(NoneNode, i + 1)

\* an eat that would also pull when the lookahead is EOF, whatever type is asked for
Eat_PastEndOfInput(ts, i, token_type) ==
  IF CurrentToken(ts, i).type \in {token_type, "EOF"} THEN Pull(ts, i) ELSE ParserError(i)

Eat(ts, i, token_type) ==
  IF CurrentToken(ts, i).type = token_type THEN Pull(ts, i) ELSE ParserError(i)

\* the token types the loops of term and expr continue on
TermOps == {"MUL", "DIV"}
ExprOps == {"PLUS", "MINUS", "DIV"}

\* pairs[key.value] = value on the dict the parser builds: a key equal (Python ==)
\* to one already present keeps that key and its place and replaces the value
DictSet(pairs, key, value) ==
  IF \E k \in 1..Len(pairs) : PyEq(pairs[k][1], key)
  THEN [k \in 1..Len(pairs) |->
          IF PyEq(pairs[k][1], key) THEN <<pairs[k][1], value>> ELSE pairs[k]]
  ELSE Append(pairs, <<key, value>>)

\* r, then K on its result: an exception or a hang in r ends the method
Then(r, K(_)) == IF r.st # "ok" THEN r ELSE K(r)

\* if self.current_token.type == COMMA: self.eat(COMMA)
EatIfComma(ts, i) ==
  IF CurrentToken(ts, i).type = "COMMA" THEN Eat(ts, i, "COMMA") ELSE Ok(NoneNode, i)

\* pairs[key.value] = value for the key node the parser built: only Num and Var
\* nodes have a value attribute
SetPair(pairs, key, value, i) ==
  IF key.k \in {"Num", "Var"} THEN Ok(DictExpr(DictSet(pairs, key.value, value)), i)
  ELSE Raise(Exc("AttributeError", "object has no attribute 'value'", "parse"), i)

RECURSIVE Factor(_, _)
RECURSIVE Term(_, _)
RECURSIVE TermLoop(_, _, _)
RECURSIVE Expr(_, _)
RECURSIVE ExprLoop(_, _, _)
RECURSIVE ListLoop(_, _, _)
RECURSIVE DictLoop(_, _, _)

\* while current_token.type != RBRACKET: elements.append(expr()); eat a comma if
\* there is one.  An iteration that pulls no token leaves the lookahead as it was,
\* so the loop repeats that iteration for ever.
ListLoop(ts, i, elements) ==
  IF CurrentToken(ts, i).type = "RBRACKET" THEN Ok(ListExpr(elements), i)
  ELSE Then(Expr(ts, i), LAMBDA e :
       Then(EatIfComma(ts, e.i), LAMBDA c :
       IF c.i = i THEN Hang(i)
       ELSE ListLoop(ts, c.i, Append(elements, e.node))))

\* while current_token.type != RBRACE: key = expr(); eat(COLON); value = expr();
\* pairs[key.value] = value; eat a comma if there is one
DictLoop(ts, i, pairs) ==
  IF CurrentToken(ts, i).type = "RBRACE" THEN Ok(DictExpr(pairs), i)
  ELSE Then(Expr(ts, i), LAMBDA key :
       Then(Eat(ts, key.i, "COLON"), LAMBDA colon :
       Then(Expr(ts, colon.i), LAMBDA value :
       Then(SetPair(pairs, key.node, value.node, value.i), LAMBDA set :
       Then(EatIfComma(ts, value.i), LAMBDA c :
       DictLoop(ts, c.i, set.node.pairs))))))

Factor(ts, i) ==
  LET token == CurrentToken(ts, i) IN
  IF token.type \in {"INTEGER", "FLOAT", "STRING", "BOOLEAN"}
  THEN Then(Eat(ts, i, token.type), LAMBDA e : Ok(Num(token), e.i))
  ELSE IF token.type = "IDENTIFIER"
  THEN Then(Eat(ts, i, "IDENTIFIER"), LAMBDA e : Ok(Var(token), e.i))
  ELSE IF token.type = "LPAREN"
  THEN Then(Eat(ts, i, "LPAREN"), LAMBDA e :
       Then(Expr(ts, e.i), LAMBDA node :
       Then(Eat(ts, node.i, "RPAREN"), LAMBDA c : Ok(node.node, c.i))))
  ELSE IF token.type = "LBRACKET"
  THEN Then(Eat(ts, i, "LBRACKET"), LAMBDA e :
       Then(ListLoop(ts, e.i, <<>>), LAMBDA l :
       Then(Eat(ts, l.i, "RBRACKET"), LAMBDA c : Ok(l.node, c.i))))
  ELSE IF token.type = "LBRACE"
  THEN Then(Eat(ts, i, "LBRACE"), LAMBDA e :
       Then(DictLoop(ts, e.i, <<>>), LAMBDA d :
       Then(Eat(ts, d.i, "RBRACE"), LAMBDA c : Ok(d.node, c.i))))
  ELSE Ok(NoneNode, i)

\* the body of term's if/elif: eat MUL or DIV, whichever the token is
EatTermOp(ts, i, token) ==
  IF token.type = "MUL" THEN Eat(ts, i, "MUL")
  ELSE IF token.type = "DIV" THEN Eat(ts, i, "DIV")
  ELSE Ok(NoneNode, i)

\* the while loop of term: node is the tree built so far
TermLoop(ts, i, node) ==
  LET token == CurrentToken(ts, i) IN
  IF token.type \in TermOps
  THEN Then(EatTermOp(ts, i, token), LAMBDA e :
       Then(Factor(ts, e.i), LAMBDA right :
       IF right.i = i THEN Hang(i)  \* nothing pulled: the same iteration for ever
       ELSE TermLoop(ts, right.i, BinOp(node, token, right.node))))
  ELSE Ok(node, i)

\* Term without its loop: a factor only
Term_WithoutLoop(ts, i) == Factor(ts, i)

Term(ts, i) == Then(Factor(ts, i), LAMBDA node : TermLoop(ts, node.i, node.node))

\* the body of expr's if/elif: eat PLUS, MINUS or DIV, whichever the token is
EatExprOp(ts, i, token) ==
  IF token.type = "PLUS" THEN Eat(ts, i, "PLUS")
  ELSE IF token.type = "MINUS" THEN Eat(ts, i, "MINUS")
  ELSE IF token.type = "DIV" THEN Eat(ts, i, "DIV")
  ELSE Ok(NoneNode, i)

\* the while loop of expr: node is the tree built so far
ExprLoop(ts, i, node) ==
  LET token == CurrentToken(ts, i) IN
  IF token.type \in ExprOps
  THEN Then(EatExprOp(ts, i, token), LAMBDA e :
       Then(Term(ts, e.i), LAMBDA right :
       IF right.i = i THEN Hang(i)  \* nothing pulled: the same iteration for ever
       ELSE ExprLoop(ts, right.i, BinOp(node, token, right.node))))
  ELSE Ok(node, i)

Expr(ts, i) == Then(Term(ts, i), LAMBDA node : ExprLoop(ts, node.i, node.node))

Assignment(ts, i) ==
  Then(Expr(ts, i), LAMBDA left :
  IF left.node.k = "Var" /\ CurrentToken(ts, left.i).type = "ASSIGN"
  THEN Then(Eat(ts, left.i, "ASSIGN"), LAMBDA e :
       Then(Expr(ts, e.i), LAMBDA right :
       Ok(Assign(left.node, CurrentToken(ts, left.i), right.node), right.i)))
  ELSE left)

Parse(ts, i) == Assignment(ts, i)

(* ------------------------------------------------------------------ *)
(* SymbolTable and Interpreter (src/kex_main.py)                        *)
(* symbols is a function from names to values; a visit returns          *)
(* [st, value, exc, symbols]: st is "ok" (value returned) or "raise".   *)
(* ------------------------------------------------------------------ *)

SymbolTableInit == <<>>

\* SymbolTable.get: dict.get, None for a missing name
SymbolTableGet(symbols, name) ==
  IF name \in DOMAIN symbols THEN symbols[name] ELSE NoneV

\* SymbolTable.set
SymbolTableSet(symbols, name, value) ==
  [n \in (DOMAIN symbols) \cup {name} |-> IF n = name THEN value ELSE symbols[n]]

Returned(value, symbols) ==
  [st |-> "ok", value |-> value, exc |-> NoneV, symbols |-> symbols]
Thrown(exc, symbols) ==
  [st |-> "raise", value |-> NoneV, exc |-> exc, symbols |-> symbols]

TypeName(v) == v.t

RECURSIVE Visit(_, _)

\* NodeVisitor.generic_visit
GenericVisit(node, symbols) ==
  Thrown(Exc("Exception", "No visit method", "visit"), symbols)

VisitNum(node, symbols) == Returned(node.value, symbols)

\* Divide with the zero divisor answered by 0 instead of raised
Divide_ZeroResult(left, right, symbols) ==
  IF PyEq(right, IntV(0)) THEN Returned(IntV(0), symbols)
  ELSE Returned(PyTrueDiv(left, right), symbols)

\* the division branch of visit_BinOp: if right == 0: raise ...; return left / right
Divide(left, right, symbols) ==
  IF PyEq(right, IntV(0))
  THEN Thrown(Exc("ZeroDivisionError", "Division by zero", "visit"), symbols)
  ELSE Returned(PyTrueDiv(left, right), symbols)

\* Nodes below the root are never Assign nodes (only Parser.assignment builds one,
\* at the root), so the visits of operands and elements leave symbols alone.
VisitBinOp(node, symbols) ==
  LET l == Visit(node.left, symbols) IN
  IF l.st # "ok" THEN l
  ELSE LET r == Visit(node.right, symbols) IN
       IF r.st # "ok" THEN r
       ELSE LET left == l.value
                right == r.value IN
            IF IsNumber(left) /\ IsNumber(right)
            THEN CASE node.op.type = "PLUS" -> Returned(PyAdd(left, right), symbols)
                   [] node.op.type = "MINUS" -> Returned(PySub(left, right), symbols)
                   [] node.op.type = "MUL" -> Returned(PyMul(left, right), symbols)
                   [] node.op.type = "DIV" -> Divide(left, right, symbols)
                   [] OTHER -> Returned(NoneV, symbols)
            ELSE IF left.t = "str" /\ right.t = "str" /\ node.op.type = "PLUS"
            THEN Returned(StrV(left.s \o right.s), symbols)
            ELSE Thrown(Exc("TypeError", "Unsupported operand types", "visit"), symbols)

\* NameError(f"Name '{name}' is not defined")
NameError(name) ==
  [type |-> "NameError", what |-> "Name is not defined", stage |-> "visit", name |-> name]

\* IsUndefined as the test "if not value"
IsUndefined_Falsy(value) == ~PyTruthy(value)

\* the test of visit_Var that decides a name is not defined
IsUndefined(value) == value = NoneV

VisitVar(node, symbols) ==
  LET value == SymbolTableGet(symbols, node.value.s) IN
  IF IsUndefined(value)
  THEN Thrown(NameError(node.value.s), symbols)
  ELSE Returned(value, symbols)

\* VisitAssign that returns the value without binding it
VisitAssign_Unbound(node, symbols) ==
  LET value == Visit(node.right, symbols) IN
  IF value.st # "ok" THEN value ELSE Returned(value.value, symbols)

\* VisitAssign that binds the name and forgets every other name
VisitAssign_ForgetOthers(node, symbols) ==
  LET var_name == node.left.value.s
      value == Visit(node.right, symbols) IN
  IF value.st # "ok" THEN value
  ELSE Returned(value.value, SymbolTableSet(SymbolTableInit, var_name, value.value))

\* VisitAssign that drops the name's binding when the right-hand side raises
VisitAssign_DropOnRaise(node, symbols) ==
  LET var_name == node.left.value.s
      value == Visit(node.right, symbols) IN
  IF value.st # "ok"
  THEN Thrown(value.exc, [n \in (DOMAIN symbols) \ {var_name} |-> symbols[n]])
  ELSE Returned(value.value, SymbolTableSet(symbols, var_name, value.value))

VisitAssign(node, symbols) ==
  LET var_name == node.left.value.s
      value == Visit(node.right, symbols) IN
  IF value.st # "ok" THEN value
  ELSE Returned(value.value, SymbolTableSet(symbols, var_name, value.value))

\* [self.visit(element) for element in elements]: left to right, the first
\* exception ends it
RECURSIVE VisitElements(_, _, _)
VisitElements(elements, symbols, done) ==
  IF elements = <<>> THEN Returned(ListV(done), symbols)
  ELSE LET v == Visit(Head(elements), symbols) IN
       IF v.st # "ok" THEN v
       ELSE VisitElements(Tail(elements), symbols, Append(done, v.value))

\* VisitListExpr that takes the elements from the last to the first
VisitListExpr_Reversed(node, symbols) ==
  VisitElements([k \in 1..Len(node.elements) |-> node.elements[Len(node.elements) + 1 - k]],
                symbols, <<>>)

VisitListExpr(node, symbols) == VisitElements(node.elements, symbols, <<>>)

\* {key: self.visit(value) for key, value in pairs.items()}
RECURSIVE VisitPairs(_, _, _)
VisitPairs(pairs, symbols, done) ==
  IF pairs = <<>> THEN Returned(DictV(done), symbols)
  ELSE LET v == Visit(Head(pairs)[2], symbols) IN
       IF v.st # "ok" THEN v
       ELSE VisitPairs(Tail(pairs), symbols, DictSet(done, Head(pairs)[1], v.value))

VisitDictExpr(node, symbols) == VisitPairs(node.pairs, symbols, <<>>)

\* NodeVisitor.visit: the method named after the node's class, else generic_visit
Visit(node, symbols) ==
  CASE node.k = "BinOp" -> VisitBinOp(node, symbols)
    [] node.k = "Num" -> VisitNum(node, symbols)
    [] node.k = "Var" -> VisitVar(node, symbols)
    [] node.k = "Assign" -> VisitAssign(node, symbols)
    [] node.k = "ListExpr" -> VisitListExpr(node, symbols)
    [] node.k = "DictExpr" -> VisitDictExpr(node, symbols)
    [] OTHER -> GenericVisit(node, symbols)

\* Interpreter.interpret with the lookahead at pull i: parse, then visit the tree.
\* [st, value, exc, symbols, tree, i]: tree is the parser's result ("<no tree>" when
\* parse did not return) and i the pulls made when interpret ended.
NoTree == [k |-> "<no tree>"]

Interpreted(st, value, exc, symbols, tree, i) ==
  [st |-> st, value |-> value, exc |-> exc, symbols |-> symbols, tree |-> tree, i |-> i]

\* return self.visit(tree), for the result p of the parse
VisitTree(p, symbols, v) == Interpreted(v.st, v.value, v.exc, v.symbols, p.node, p.i)

\* the rest of interpret once parser.parse() has ended as p
AfterParse(p, symbols) ==
  IF p.st = "ok" THEN VisitTree(p, symbols, Visit(p.node, symbols))
  ELSE Interpreted(p.st, NoneV, p.exc, symbols, NoTree, p.i)

Interpret(ts, i, symbols) == AfterParse(Parse(ts, i), symbols)

(* ------------------------------------------------------------------ *)
(* main (src/kex_main.py): the read-evaluate-print loop                 *)
(* ------------------------------------------------------------------ *)

VARIABLES
  symbols,        \* interpreter.symbol_table.symbols
  lexer,          \* the Lexer object: [text, pos, line, column]
  current_token,  \* parser.current_token
  status,         \* "prompt" (at input()), "hung" (inside a loop that never ends), "exited"
  nread,          \* lines read so far
  line,           \* the text the last input() returned
  outcome,        \* how the last iteration ended: [st, value, exc]
  tree,           \* what parser.parse() returned in the last iteration, if it returned
  before,         \* symbols as they were when the last line was read
  assigned,       \* per name, the value of the last Assign node whose visit returned
  program         \* which of the two programs of the repository is running

vars ==
  <<symbols, lexer, current_token, status, nread, line, outcome, tree, before, assigned,
    program>>

\* the single-file interpreter and the package
MainProgram == "src/kex_main.py"
PkgProgram == "src/Kex"

\* the number of lines a session reads
MaxLines == 2

\* str.strip()
RECURSIVE LStrip(_)
LStrip(text) == IF text # <<>> /\ IsSpace(Head(text)) THEN LStrip(Tail(text)) ELSE text
RECURSIVE RStrip(_)
RStrip(text) ==
  IF text # <<>> /\ IsSpace(text[Len(text)]) THEN RStrip(SubSeq(text, 1, Len(text) - 1))
  ELSE text
Strip(text) == RStrip(LStrip(text))

\* str.lower()
LowerStr(text) == [k \in 1..Len(text) |-> LowerChar(text[k])]

Outcome(st, value, exc) == [st |-> st, value |-> value, exc |-> exc]

Init ==
  /\ symbols = SymbolTableInit
  /\ lexer = LexerInit(<<>>)
  /\ current_token = GetNextToken(LexerInit(<<>>)).tok
  /\ status = "prompt"
  /\ nread = 0
  /\ line = <<>>
  /\ outcome = Outcome("none", NoneV, NoneV)
  /\ tree = NoTree
  /\ before = SymbolTableInit
  /\ assigned = <<>>
  /\ program = MainProgram

\* lexer.text = text; lexer.pos = 0; lexer.current_char = ...: line and column stay
\* a reset that would give the Lexer the new text and leave its position
ReplReset_KeepPos(lx, text) == [lx EXCEPT !.text = text]

ReplReset(lx, text) == [lx EXCEPT !.text = text, !.pos = 0]

\* Lines 384-388 for the token stream ts of the line: the first pull, then interpret()
FirstPullAndInterpret(ts, syms) ==
  IF ts[1].tok.type = "<raise>"
  THEN Interpreted("raise", NoneV, ts[1].tok.exc, syms, NoTree, 1)
  ELSE Interpret(ts, 1, syms)

\* input() raises EOFError: break
ReadEOF ==
  /\ program = MainProgram
  /\ status = "prompt"
  /\ nread < MaxLines
  /\ status' = "exited"
  /\ nread' = nread + 1
  /\ line' = <<>>
  /\ outcome' = Outcome("eof", NoneV, NoneV)
  /\ tree' = NoTree
  /\ before' = symbols
  /\ UNCHANGED <<symbols, lexer, current_token, assigned, program>>

\* text.strip() == '': continue
ReadBlank(text) ==
  /\ program = MainProgram
  /\ status = "prompt"
  /\ nread < MaxLines
  /\ Strip(text) = <<>>
  /\ nread' = nread + 1
  /\ line' = text
  /\ outcome' = Outcome("skipped", NoneV, NoneV)
  /\ tree' = NoTree
  /\ before' = symbols
  /\ UNCHANGED <<symbols, lexer, current_token, status, assigned, program>>

\* text.strip().lower() == 'exit': break
ReadExit(text) ==
  /\ program = MainProgram
  /\ status = "prompt"
  /\ nread < MaxLines
  /\ Strip(text) # <<>>
  /\ LowerStr(Strip(text)) = <<"e", "x", "i", "t">>
  /\ status' = "exited"
  /\ nread' = nread + 1
  /\ line' = text
  /\ outcome' = Outcome("exit", NoneV, NoneV)
  /\ tree' = NoTree
  /\ before' = symbols
  /\ UNCHANGED <<symbols, lexer, current_token, assigned, program>>

\* the state after the iteration that read text, scanned it into ts and ended as r
Evaluated(text, ts, r) ==
  /\ symbols' = r.symbols
  /\ lexer' = Handed(ts, r.i).s
  /\ current_token' = IF r.st = "raise" /\ r.exc.stage = "scan"
                      THEN (IF r.i = 1 THEN current_token ELSE ts[r.i - 1].tok)
                      ELSE Handed(ts, r.i).tok
  /\ status' = IF r.st = "hang" THEN "hung" ELSE "prompt"
  /\ outcome' = Outcome(r.st, r.value, r.exc)
  /\ tree' = r.tree
  /\ assigned' = IF r.st = "ok" /\ r.tree.k = "Assign"
                 THEN [n \in (DOMAIN assigned) \cup {r.tree.left.value.s} |->
                         IF n = r.tree.left.value.s THEN r.value ELSE assigned[n]]
                 ELSE assigned
  /\ nread' = nread + 1
  /\ line' = text
  /\ before' = symbols
  /\ UNCHANGED program

EvaluateStream(text, ts) == Evaluated(text, ts, FirstPullAndInterpret(ts, symbols))

\* any other line: reset, first pull, interpret, print; except Exception: print
ReadEval(text) ==
  /\ program = MainProgram
  /\ status = "prompt"
  /\ nread < MaxLines
  /\ Strip(text) # <<>>
  /\ LowerStr(Strip(text)) # <<"e", "x", "i", "t">>
  /\ EvaluateStream(text, TokenStream(ReplReset(lexer, text)))

(* ------------------------------------------------------------------ *)
(* Input lines                                                          *)
(* ------------------------------------------------------------------ *)

\* words joined by single blanks
RECURSIVE Join(_)
Join(words) ==
  IF words = <<>> THEN <<>>
  ELSE IF Len(words) = 1 THEN words[1]
  ELSE words[1] \o <<" ">> \o Join(Tail(words))

Names == {<<"x">>, <<"y">>}

\* lines every session may read: blank ones and exit
ControlLines == {<<>>, <<" ">>, <<"e", "x", "i", "t">>, <<" ", "E", "x", "i", "t">>}

\* right-hand sides: literals of every type (the falsy ones among them), names,
\* failing expressions, and texts that are no expression
RightSides ==
  { <<"0">>, <<"5">>, <<"0", ".", "0">>, <<"2", ".", "5">>, <<"f", "a", "l", "s", "e">>,
    <<"t", "r", "u", "e">>, <<"\"", "\"">>, <<"\"", "a", "\"">>, <<"[", "]">>, <<"{", "}">>,
    <<"[", "x", "]">>, <<"x">>, <<"y">>, <<"x", " ", "+", " ", "1">>, <<"1", " ", "/", " ", "0">>,
    <<"1", " ", "/", " ", "x">>, <<"1", " ", "+", " ", "\"", "a", "\"">>,
    <<")">>, <<"$">>, <<"\"", "a">>, <<"1", " ", "+">>, <<"1", " ", "x", " ", "=", " ", "2">> }

AssignLines == { Join(<<n, <<"=">>, e>>) : n \in Names, e \in RightSides }

\* lines that are no assignment
OtherLines ==
  Names \cup
  { <<"x", " ", "=">>, <<"1", " ", "+">>, <<")">>, <<"1", " ", ")">>, <<"+", " ", "1">>,
    <<"$">>, <<"[">>, <<"[", "1">>, <<"(", "x", ")", " ", "=", " ", "5">>, <<"5">>,
    <<"x", " ", "+", " ", "y">>, <<"[", "x", ",", " ", "y", "]">>,
    <<"x", " ", "+", " ", "1", " ", "=", " ", "5">>, <<"\"", "x", "\"", " ", "=", " ", "5">>,
    <<"(", "y", ")", " ", "=", " ", "x">>, <<"{", "\"", "a", "\"", ":", " ", "x", "}">>,
    <<"(", "1">> }

SessionLines == ControlLines \cup AssignLines \cup OtherLines

Next ==
  \/ ReadEOF
  \/ \E text \in SessionLines : ReadBlank(text)
  \/ \E text \in SessionLines : ReadExit(text)
  \/ \E text \in SessionLines : ReadEval(text)

\* a session of assignments, lookups and malformed lines
Spec == Init /\ [][Next]_vars

\* --- precedence: a op1 b op2 c, with and without parentheses ---

OperandsA == {<<"1">>, <<"2", ".", "5">>}
OperandsB == {<<"2">>, <<"3">>}
OperandsC == {<<"3">>, <<"4">>}
AddOps == {<<"+">>, <<"-">>}
MulOps == {<<"*">>, <<"/">>}

Plain(a, op1, b, op2, c) == Join(<<a, op1, b, op2, c>>)
Grouped(a, op1, b, op2, c) == Join(<<<<"(">>, a, op1, b, <<")">>, op2, c>>)

PrecedenceLines ==
  ControlLines \cup
  { Plain(a, op1, b, op2, c) :
      a \in OperandsA, op1 \in AddOps, b \in OperandsB, op2 \in MulOps, c \in OperandsC } \cup
  { Grouped(a, op1, b, op2, c) :
      a \in OperandsA, op1 \in AddOps, b \in OperandsB, op2 \in MulOps, c \in OperandsC }

NextPrecedence ==
  \/ ReadEOF
  \/ \E text \in PrecedenceLines : ReadBlank(text)
  \/ \E text \in PrecedenceLines : ReadExit(text)
  \/ \E text \in PrecedenceLines : ReadEval(text)

SpecPrecedence == Init /\ [][NextPrecedence]_vars

\* --- binary operations: left op right over operands of every type ---

LeftOperands ==
  { <<"2">>, <<"2", ".", "5">>, <<"t", "r", "u", "e">>, <<"\"", "a", "\"">>, <<"[", "]">>,
    <<"x">> }

RightOperands ==
  { <<"0">>, <<"2">>, <<"0", ".", "0">>, <<"t", "r", "u", "e">>, <<"f", "a", "l", "s", "e">>,
    <<"\"", "a", "\"">>, <<"{", "}">>, <<"x">>, <<"(", "1", "-", "1", ")">> }

BinaryOps == AddOps \cup MulOps

Binary(l, op, r) == Join(<<l, op, r>>)

\* what x may be set to before it is used as an operand
Settings == { <<"0">>, <<"0", ".", "0">>, <<"2">>, <<"\"", "a", "\"">> }

BinaryLines ==
  ControlLines \cup
  { Binary(l, op, r) : l \in LeftOperands, op \in BinaryOps, r \in RightOperands } \cup
  { Join(<<<<"x">>, <<"=">>, e>>) : e \in Settings } \cup
  { Join(<<<<"y">>, <<"=">>, Binary(<<"2">>, <<"/">>, r)>>) : r \in RightOperands }

NextBinary ==
  \/ ReadEOF
  \/ \E text \in BinaryLines : ReadBlank(text)
  \/ \E text \in BinaryLines : ReadExit(text)
  \/ \E text \in BinaryLines : ReadEval(text)

SpecBinary == Init /\ [][NextBinary]_vars

(* ------------------------------------------------------------------ *)
(* The package src/Kex: lexer, parser, interpreter and its own loop     *)
(* ------------------------------------------------------------------ *)

\* Lexer.advance of the package
PkgAdvance(s) ==
  IF CurrentChar(s) = "\n"
  THEN [s EXCEPT !.line = s.line + 1, !.column = 1, !.pos = s.pos + 1]
  ELSE [s EXCEPT !.column = s.column + 1, !.pos = s.pos + 1]

RECURSIVE PkgAdvanceBy(_, _)
PkgAdvanceBy(s, k) == IF k = 0 THEN s ELSE PkgAdvanceBy(PkgAdvance(s), k - 1)

RECURSIVE PkgSkipWhitespace(_)
PkgSkipWhitespace(s) ==
  IF CurrentChar(s) # NoChar /\ IsSpace(CurrentChar(s)) THEN PkgSkipWhitespace(PkgAdvance(s))
  ELSE s

\* the characters number() consumes: digits and dots
RECURSIVE PkgNumberRun(_)
PkgNumberRun(s) ==
  IF CurrentChar(s) # NoChar /\ (IsDigit(CurrentChar(s)) \/ CurrentChar(s) = ".")
  THEN <<CurrentChar(s)>> \o PkgNumberRun(PkgAdvance(s))
  ELSE <<>>

\* number(): int(result) whatever was consumed, so a run with a dot raises ValueError
PkgNumber(s) ==
  LET result == PkgNumberRun(s)
      s1 == PkgAdvanceBy(s, Len(result))
  IN IF \E k \in 1..Len(result) : result[k] = "."
     THEN Scanned(Raised(Exc("ValueError", "invalid literal for int()", "scan")), s1)
     ELSE Scanned(Token("INTEGER", IntV(PyInt(result)), s1.line, s1.column), s1)

RECURSIVE PkgStringRun(_)
PkgStringRun(s) ==
  IF CurrentChar(s) # NoChar /\ CurrentChar(s) # "\""
  THEN <<CurrentChar(s)>> \o PkgStringRun(PkgAdvance(s))
  ELSE <<>>

\* string(): the closing quote is skipped without a look at what is there
PkgString(s) ==
  LET s1 == PkgAdvance(s)
      result == PkgStringRun(s1)
      s2 == PkgAdvance(PkgAdvanceBy(s1, Len(result)))
  IN Scanned(Token("STRING", StrV(result), s2.line, s2.column), s2)

RECURSIVE PkgIdentifierRun(_)
PkgIdentifierRun(s) ==
  IF CurrentChar(s) # NoChar /\ (IsAlnum(CurrentChar(s)) \/ CurrentChar(s) = "_")
  THEN <<CurrentChar(s)>> \o PkgIdentifierRun(PkgAdvance(s))
  ELSE <<>>

PkgIdentifierOrKeyword(s) ==
  LET result == PkgIdentifierRun(s)
      s1 == PkgAdvanceBy(s, Len(result))
  IN CASE result = <<"i", "f">> -> Scanned(Token("IF", StrV(result), s1.line, s.pos), s1)
       [] result = <<"e", "l", "i", "f">> ->
            Scanned(Token("ELIF", StrV(result), s1.line, s.pos), s1)
       [] result = <<"e", "l", "s", "e">> ->
            Scanned(Token("ELSE", StrV(result), s1.line, s.pos), s1)
       [] result = <<"t", "r", "u", "e">> ->
            Scanned(Token("BOOLEAN", BoolV(TRUE), s1.line, s.pos), s1)
       [] result = <<"f", "a", "l", "s", "e">> ->
            Scanned(Token("BOOLEAN", BoolV(FALSE), s1.line, s.pos), s1)
       [] OTHER -> Scanned(Token("IDENTIFIER", StrV(result), s1.line, s.pos), s1)

\* the branches of get_next_token for = < > : one character, or two when = follows
PkgShortType(c) == CASE c = "=" -> "ASSIGN" [] c = "<" -> "LT" [] c = ">" -> "GT"
PkgLongType(c) == CASE c = "=" -> "EQ" [] c = "<" -> "LE" [] c = ">" -> "GE"

PkgOperator(s) ==
  LET c == CurrentChar(s)
      s1 == PkgAdvance(s)
      s2 == PkgAdvance(s1)
  IN IF CurrentChar(s1) = "="
     THEN Scanned(Token(PkgLongType(c), StrV(<<c, "=">>), s2.line, s2.column - 1), s2)
     ELSE Scanned(Token(PkgShortType(c), StrV(<<c>>), s1.line, s1.column - 1), s1)

\* the branch for ! : != or an exception raised after the advance
PkgBang(s) ==
  LET s1 == PkgAdvance(s)
      s2 == PkgAdvance(s1)
  IN IF CurrentChar(s1) = "="
     THEN Scanned(Token("NE", StrV(<<"!", "=">>), s2.line, s2.column - 1), s2)
     ELSE Scanned(Raised(Exc("Exception", "Invalid character", "scan")), s1)

PkgSingleCharType(c) ==
  CASE c = "+" -> "PLUS" [] c = "-" -> "MINUS" [] c = "*" -> "MUL" [] c = "/" -> "DIV"
    [] c = "(" -> "LPAREN" [] c = ")" -> "RPAREN" [] c = "[" -> "LBRACKET"
    [] c = "]" -> "RBRACKET" [] c = "{" -> "LBRACE" [] c = "}" -> "RBRACE"
    [] c = "," -> "COMMA" [] c = ":" -> "COLON" [] OTHER -> "<none>"

RECURSIVE PkgGetNextToken(_)
PkgGetNextToken(s) ==
  LET c == CurrentChar(s) IN
  IF c = NoChar THEN Scanned(Token("EOF", NoneV, s.line, s.column), s)
  ELSE IF IsSpace(c) THEN PkgGetNextToken(PkgSkipWhitespace(s))
  ELSE IF IsAlpha(c) \/ c = "_" THEN PkgIdentifierOrKeyword(s)
  ELSE IF IsDigit(c) \/ c = "." THEN PkgNumber(s)
  ELSE IF c = "\"" THEN PkgString(s)
  ELSE IF c \in {"=", "<", ">"} THEN PkgOperator(s)
  ELSE IF c = "!" THEN PkgBang(s)
  ELSE IF PkgSingleCharType(c) # "<none>"
  THEN Scanned(Token(PkgSingleCharType(c), StrV(<<c>>), PkgAdvance(s).line,
                     PkgAdvance(s).column - 1), PkgAdvance(s))
  ELSE Scanned(Raised(Exc("Exception", "Invalid character", "scan")), s)

\* Lexer.reset(text): line and column start again
PkgLexerReset(lx, text) == [text |-> text, pos |-> 0, line |-> 1, column |-> 1]

\* what the lexer hands out pull after pull, up to the first EOF or exception
RECURSIVE PkgTokenStream(_)
PkgTokenStream(s) ==
  LET r == PkgGetNextToken(s) IN
  IF r.tok.type \in {"EOF", "<raise>"} THEN <<r>> ELSE <<r>> \o PkgTokenStream(r.s)

\* the nodes of kex_ast.py the parser builds
PkgNum(token) == [k |-> "Num", value |-> token.value]
PkgString_(token) == [k |-> "String", value |-> token.value]
PkgBoolean(token) == [k |-> "Boolean", token |-> token, value |-> token.value]
PkgVar(token) == [k |-> "Var", token |-> token, value |-> token.value]
PkgBinOp(left, op, right) == [k |-> "BinOp", left |-> left, op |-> op, right |-> right]

\* Parser.error(expected_type) with current_token at pull i
PkgError(ts, i, expected) ==
  Raise([type |-> "Exception", what |-> "Parser error", stage |-> "parse",
         expected |-> expected, got |-> CurrentToken(ts, i).type], i)

PkgEat(ts, i, token_type) ==
  IF CurrentToken(ts, i).type = token_type THEN Pull(ts, i) ELSE PkgError(ts, i, token_type)

\* variable(): the lookahead must be an IDENTIFIER
PkgVariable(ts, i) ==
  Then(PkgEat(ts, i, "IDENTIFIER"), LAMBDA e : Ok(PkgVar(CurrentToken(ts, i)), e.i))

RECURSIVE PkgTerm(_, _)
RECURSIVE PkgExpr(_, _)
RECURSIVE PkgExprLoop(_, _, _)

PkgTerm(ts, i) ==
  LET token == CurrentToken(ts, i) IN
  CASE token.type \in {"INTEGER", "FLOAT"} ->
         Then(PkgEat(ts, i, token.type), LAMBDA e : Ok(PkgNum(token), e.i))
    [] token.type = "STRING" ->
         Then(PkgEat(ts, i, "STRING"), LAMBDA e : Ok(PkgString_(token), e.i))
    [] token.type = "BOOLEAN" ->
         Then(PkgEat(ts, i, "BOOLEAN"), LAMBDA e : Ok(PkgBoolean(token), e.i))
    [] token.type = "IDENTIFIER" -> PkgVariable(ts, i)
    [] token.type = "LPAREN" ->
         Then(PkgEat(ts, i, "LPAREN"), LAMBDA e :
         Then(PkgExpr(ts, e.i), LAMBDA node :
         Then(PkgEat(ts, node.i, "RPAREN"), LAMBDA c : Ok(node.node, c.i))))
    [] OTHER -> PkgError(ts, i, "Unexpected token")

\* the while loop of expr(): PLUS and MINUS only
PkgExprLoop(ts, i, node) ==
  IF CurrentToken(ts, i).type \in {"PLUS", "MINUS"}
  THEN Then(PkgEat(ts, i, CurrentToken(ts, i).type), LAMBDA e :
       Then(PkgTerm(ts, e.i), LAMBDA right :
       PkgExprLoop(ts, right.i, PkgBinOp(node, CurrentToken(ts, i), right.node))))
  ELSE Ok(node, i)

PkgExpr(ts, i) == Then(PkgTerm(ts, i), LAMBDA node : PkgExprLoop(ts, node.i, node.node))

\* Assign(left=node, right=self.expr()): the arguments are evaluated, then the call
\* fails because Assign.__init__ requires op
PkgAssignCall(left, right, i) ==
  Raise(Exc("TypeError", "Assign.__init__() missing 1 required positional argument: 'op'",
            "parse"), i)

PkgAssignment(ts, i) ==
  Then(PkgVariable(ts, i), LAMBDA node :
  Then(PkgEat(ts, node.i, "ASSIGN"), LAMBDA e :
  Then(PkgExpr(ts, e.i), LAMBDA right : PkgAssignCall(node.node, right.node, right.i))))

\* Parser.parse: one assignment; conditional, block, statement and comparison are
\* called from nowhere on this path
PkgParse(ts, i) == PkgAssignment(ts, i)

\* Interpreter.visit of the package: node["type"] on an object of kex_ast.py
PkgVisit(node, syms) ==
  Thrown(Exc("TypeError", "object is not subscriptable", "visit"), syms)

\* Interpreter.interpret of the package
PkgAfterParse(p, syms) ==
  IF p.st = "ok" THEN VisitTree(p, syms, PkgVisit(p.node, syms))
  ELSE Interpreted(p.st, NoneV, p.exc, syms, NoTree, p.i)

PkgInterpret(ts, i, syms) == PkgAfterParse(PkgParse(ts, i), syms)

\* parser.reset() (the first pull of the line), then interpreter.interpret()
PkgResetAndInterpret(ts, syms) ==
  IF ts[1].tok.type = "<raise>"
  THEN Interpreted("raise", NoneV, ts[1].tok.exc, syms, NoTree, 1)
  ELSE PkgInterpret(ts, 1, syms)

\* main() of src/Kex/kex_main.py up to its loop
PkgInit ==
  /\ symbols = SymbolTableInit
  /\ lexer = LexerInit(<<>>)
  /\ current_token = PkgGetNextToken(LexerInit(<<>>)).tok
  /\ status = "prompt"
  /\ nread = 0
  /\ line = <<>>
  /\ outcome = Outcome("none", NoneV, NoneV)
  /\ tree = NoTree
  /\ before = SymbolTableInit
  /\ assigned = <<>>
  /\ program = PkgProgram

\* input() raises EOFError: break
PkgReadEOF ==
  /\ program = PkgProgram
  /\ status = "prompt"
  /\ nread < MaxLines
  /\ status' = "exited"
  /\ nread' = nread + 1
  /\ line' = <<>>
  /\ outcome' = Outcome("eof", NoneV, NoneV)
  /\ tree' = NoTree
  /\ before' = symbols
  /\ UNCHANGED <<symbols, lexer, current_token, assigned, program>>

\* text.strip().lower() == 'exit': break
PkgReadExit(text) ==
  /\ program = PkgProgram
  /\ status = "prompt"
  /\ nread < MaxLines
  /\ LowerStr(Strip(text)) = <<"e", "x", "i", "t">>
  /\ status' = "exited"
  /\ nread' = nread + 1
  /\ line' = text
  /\ outcome' = Outcome("exit", NoneV, NoneV)
  /\ tree' = NoTree
  /\ before' = symbols
  /\ UNCHANGED <<symbols, lexer, current_token, assigned, program>>

\* text.strip() == '': continue
PkgReadBlank(text) ==
  /\ program = PkgProgram
  /\ status = "prompt"
  /\ nread < MaxLines
  /\ LowerStr(Strip(text)) # <<"e", "x", "i", "t">>
  /\ Strip(text) = <<>>
  /\ nread' = nread + 1
  /\ line' = text
  /\ outcome' = Outcome("skipped", NoneV, NoneV)
  /\ tree' = NoTree
  /\ before' = symbols
  /\ UNCHANGED <<symbols, lexer, current_token, status, assigned, program>>

PkgEvaluateStream(text, ts) == Evaluated(text, ts, PkgResetAndInterpret(ts, symbols))

\* any other line: lexer.reset(text), parser.reset(), interpret; except Exception
PkgReadEval(text) ==
  /\ program = PkgProgram
  /\ status = "prompt"
  /\ nread < MaxLines
  /\ LowerStr(Strip(text)) # <<"e", "x", "i", "t">>
  /\ Strip(text) # <<>>
  /\ PkgEvaluateStream(text, PkgTokenStream(PkgLexerReset(lexer, text)))

\* --- the lines of a session with the package ---

RelOps == { <<"=", "=">>, <<"!", "=">>, <<"<">>, <<"<", "=">>, <<">">>, <<">", "=">> }
CondOperands == { <<"1">>, <<"2">> }

Branch(n) == <<<<":">>, <<"{">>, <<"x">>, <<"=">>, n, <<"}">>>>

\* if a op b: { x = 1 }
IfOnly(a, op, b) == Join(<<<<"i", "f">>, a, op, b>> \o Branch(<<"1">>))

\* if a op b: { x = 1 } elif b op a: { x = 2 } else: { x = 3 }
IfElifElse(a, op, b) ==
  Join(<<<<"i", "f">>, a, op, b>> \o Branch(<<"1">>) \o
       <<<<"e", "l", "i", "f">>, b, op, a>> \o Branch(<<"2">>) \o
       <<<<"e", "l", "s", "e">>>> \o Branch(<<"3">>))

PkgRightSides ==
  { <<"2">>, <<"1", ".", "5">>, <<".">>, <<"\"", "a", "\"">>, <<"\"", "a">>, <<"t", "r", "u", "e">>,
    <<"f", "a", "l", "s", "e">>, <<"y">>, <<"1", " ", "+", " ", "2">>, <<"y", " ", "-", " ", "1">>,
    <<"(", "1", ")">>, <<"(", "1">>, <<"1", " ", "*", " ", "2">>, <<"1", " ", "<", " ", "2">>,
    <<"1", " ", "+">>, <<"$">>, <<"!">>, <<"[", "1", "]">>, <<"e", "l", "s", "e">>, <<>> }

PkgOtherLines ==
  { <<"x">>, <<"5">>, <<"=", " ", "1">>, <<"x", " ", "1">>, <<"x", " ", "=", "=", " ", "1">>,
    <<"x", " ", "!", "=", " ", "1">>, <<"x", " ", "<", "=", " ", "1">>,
    <<"x", " ", ">", "=", " ", "1">>, <<"x", " ", ">", " ", "1">>, <<"$">>, <<"!">>,
    <<"e", "l", "i", "f">>, <<"1", ".", "5">>, <<"\"", "a", "\"">>, <<"_", "a", "1", ",", "/">> }

\* a op b, and x = a op b
Compared(a, op, b) == Join(<<a, op, b>>)
AssignCompared(a, op, b) == Join(<<<<"x">>, <<"=">>, a, op, b>>)

PkgLines ==
  ControlLines \cup PkgOtherLines \cup
  { Compared(a, op, b) : a \in CondOperands, op \in RelOps, b \in CondOperands } \cup
  { AssignCompared(a, op, b) : a \in CondOperands, op \in RelOps, b \in CondOperands } \cup
  { Join(<<n, <<"=">>, e>>) : n \in Names, e \in PkgRightSides } \cup
  { IfOnly(a, op, b) : a \in CondOperands, op \in RelOps, b \in CondOperands } \cup
  { IfElifElse(a, op, b) : a \in CondOperands, op \in RelOps, b \in CondOperands }

NextPkg ==
  \/ PkgReadEOF
  \/ \E text \in PkgLines : PkgReadExit(text)
  \/ \E text \in PkgLines : PkgReadBlank(text)
  \/ \E text \in PkgLines : PkgReadEval(text)

\* a session with the loop of src/Kex/kex_main.py
SpecPkg == PkgInit /\ [][NextPkg]_vars

\* --- the condition of a conditional (src/Kex/kex_parser.py) ---

RelTypes == {"EQ", "NE", "LT", "LE", "GT", "GE"}

\* the while loop of comparison(): node is the tree built so far
RECURSIVE PkgComparisonLoop(_, _, _)
PkgComparisonLoop(ts, i, node) ==
  IF CurrentToken(ts, i).type \in RelTypes
  THEN Then(PkgEat(ts, i, CurrentToken(ts, i).type), LAMBDA e :
       Then(PkgExpr(ts, e.i), LAMBDA right :
       PkgComparisonLoop(ts, right.i, PkgBinOp(node, CurrentToken(ts, i), right.node))))
  ELSE Ok(node, i)

PkgComparison(ts, i) ==
  Then(PkgExpr(ts, i), LAMBDA node : PkgComparisonLoop(ts, node.i, node.node))

\* conditional() up to the first statement of block(): eat(IF), comparison(),
\* eat(COLON), eat(LBRACE)
PkgConditionalHead(ts, i) ==
  Then(PkgEat(ts, i, "IF"), LAMBDA e :
  Then(PkgComparison(ts, e.i), LAMBDA condition :
  Then(PkgEat(ts, condition.i, "COLON"), LAMBDA colon :
  Then(PkgEat(ts, colon.i, "LBRACE"), LAMBDA brace :
  Ok(condition.node, brace.i)))))

\* Parser(Lexer(text)): the constructor pulls the first token; then the method
StartedOn(ts, r) == IF ts[1].tok.type = "<raise>" THEN Raise(ts[1].tok.exc, 1) ELSE r

\* the state after a parsing method called on a new Parser on text has ended as r
Parsed(text, ts, r) ==
  /\ lexer' = Handed(ts, r.i).s
  /\ current_token' = IF r.st = "raise" /\ r.exc.stage = "scan"
                      THEN (IF r.i = 1 THEN current_token ELSE ts[r.i - 1].tok)
                      ELSE Handed(ts, r.i).tok
  /\ outcome' = Outcome(r.st, NoneV, r.exc)
  /\ tree' = IF r.st = "ok" THEN r.node ELSE NoTree
  /\ status' = "parsed"
  /\ nread' = nread + 1
  /\ UNCHANGED <<symbols, line, before, assigned, program>>

ChainOperands == { <<"1">>, <<"2">>, <<"y">> }

\* a op b, and a op1 b op2 c
Chained(a, op1, b, op2, c) == Join(<<a, op1, b, op2, c>>)

\* if a op b: and if a op1 b op2 c:
IfCompared(a, op, b) == Join(<<<<"i", "f">>, a, op, b>>) \o <<":">>
IfChained(a, op1, b, op2, c) == Join(<<<<"i", "f">>, a, op1, b, op2, c>>) \o <<":">>

\* the texts comparison() is called on
ComparisonTexts ==
  { <<>>, <<"1">>, <<"1", " ", "<">>, <<"<", " ", "1">>, <<"1", " ", "<", " ", "2", " ", "<">>,
    <<"1", " ", "+", " ", "2", " ", "<", " ", "3">>, <<"1", " ", "<", " ", "$">> } \cup
  { Compared(a, op, b) : a \in ChainOperands, op \in RelOps, b \in ChainOperands } \cup
  { Chained(a, op1, <<"2">>, op2, c) :
      a \in ChainOperands, op1 \in RelOps, op2 \in RelOps, c \in ChainOperands }

\* the texts conditional() is called on
ConditionalTexts ==
  { <<"i", "f", " ", "1", " ", "<", " ", "2">>, <<"i", "f", " ", "1", ":">>, <<"i", "f">>,
    <<"1", ":">> } \cup
  { IfCompared(a, op, b) : a \in ChainOperands, op \in RelOps, b \in ChainOperands } \cup
  { IfChained(a, op1, <<"2">>, op2, c) :
      a \in ChainOperands, op1 \in RelOps, op2 \in RelOps, c \in ChainOperands }

ConditionTexts == ComparisonTexts \cup ConditionalTexts

\* a text, and no Parser on it yet
ConditionInit(text) ==
  /\ symbols = SymbolTableInit
  /\ lexer = LexerInit(text)
  /\ current_token = NoToken
  /\ status = "parsing"
  /\ nread = 0
  /\ line = text
  /\ outcome = Outcome("none", NoneV, NoneV)
  /\ tree = NoTree
  /\ before = SymbolTableInit
  /\ assigned = <<>>
  /\ program = PkgProgram

\* Parser(Lexer(line)).comparison()
CallComparison ==
  /\ program = PkgProgram
  /\ status = "parsing"
  /\ line \in ComparisonTexts
  /\ Parsed(line, PkgTokenStream(LexerInit(line)),
            StartedOn(PkgTokenStream(LexerInit(line)),
                      PkgComparison(PkgTokenStream(LexerInit(line)), 1)))

\* Parser(Lexer(line)).conditional()
CallConditional ==
  /\ program = PkgProgram
  /\ status = "parsing"
  /\ line \in ConditionalTexts
  /\ Parsed(line, PkgTokenStream(LexerInit(line)),
            StartedOn(PkgTokenStream(LexerInit(line)),
                      PkgConditionalHead(PkgTokenStream(LexerInit(line)), 1)))

NextCondition == CallComparison \/ CallConditional

\* a Parser of the package constructed on a text, and comparison() or conditional()
\* called on it
SpecCondition == (\E text \in ConditionTexts : ConditionInit(text)) /\ [][NextCondition]_vars

\* --- the loop of either program ---

NextRepl == Next \/ NextPkg

\* a session with src/kex_main.py or with the package, on the lines of each
SpecRepl == (Init \/ PkgInit) /\ [][NextRepl]_vars

(* ------------------------------------------------------------------ *)
(* Scanner sessions: a Lexer of either program driven call by call.     *)
(* Here lexer is the Lexer object, line the text it was last given,     *)
(* before the Lexer as it was constructed or as the last reset left it, *)
(* nread the calls of get_next_token since then, current_token the last *)
(* token a call returned and outcome how the last call ended.           *)
(* ------------------------------------------------------------------ *)

\* calls of get_next_token between two resets
MaxCalls == 7

\* a session is reset again only while line + column of the cursor is at most this
MaxCursor == 8

\* the state of the variables the scanner sessions do not use
ScanIdle ==
  /\ symbols = SymbolTableInit
  /\ tree = NoTree
  /\ assigned = <<>>
  /\ status = "scanning"

\* the state after a call of get_next_token that ended as r
Called(r) ==
  /\ lexer' = r.s
  /\ current_token' = IF r.tok.type = "<raise>" THEN current_token ELSE r.tok
  /\ outcome' = IF r.tok.type = "<raise>" THEN Outcome("raise", NoneV, r.tok.exc)
                ELSE Outcome("ok", NoneV, NoneV)
  /\ nread' = nread + 1
  /\ UNCHANGED <<symbols, status, line, tree, before, assigned, program>>

\* the state after the lexer has been given text, lx being the lexer it then is
GivenText(lx, text) ==
  /\ lexer' = lx
  /\ before' = lx
  /\ line' = text
  /\ nread' = 0
  /\ outcome' = Outcome("none", NoneV, NoneV)
  /\ UNCHANGED <<symbols, status, current_token, tree, assigned, program>>

\* Lexer(text) of src/kex_main.py
ScanInit(text) ==
  /\ ScanIdle
  /\ program = MainProgram
  /\ lexer = LexerInit(text)
  /\ before = LexerInit(text)
  /\ line = text
  /\ nread = 0
  /\ current_token = NoToken
  /\ outcome = Outcome("none", NoneV, NoneV)

\* Lexer(text) of src/Kex/kex_lexer.py
PkgScanInit(text) ==
  /\ ScanIdle
  /\ program = PkgProgram
  /\ lexer = LexerInit(text)
  /\ before = LexerInit(text)
  /\ line = text
  /\ nread = 0
  /\ current_token = NoToken
  /\ outcome = Outcome("none", NoneV, NoneV)

\* one call of Lexer.get_next_token (src/kex_main.py)
ScanNext ==
  /\ program = MainProgram
  /\ status = "scanning"
  /\ outcome.st # "raise"
  /\ nread < MaxCalls
  /\ Called(GetNextToken(lexer))

\* one call of Lexer.get_next_token (src/Kex/kex_lexer.py)
PkgScanNext ==
  /\ program = PkgProgram
  /\ status = "scanning"
  /\ outcome.st # "raise"
  /\ nread < MaxCalls
  /\ Called(PkgGetNextToken(lexer))

\* the reset main() of src/kex_main.py makes for a new line
ScanReset(text) ==
  /\ program = MainProgram
  /\ status = "scanning"
  /\ nread > 0
  /\ lexer.line + lexer.column <= MaxCursor
  /\ GivenText(ReplReset(lexer, text), text)

\* Lexer.reset(text) of src/Kex/kex_lexer.py
PkgScanReset(text) ==
  /\ program = PkgProgram
  /\ status = "scanning"
  /\ nread > 0
  /\ lexer.line + lexer.column <= MaxCursor
  /\ GivenText(PkgLexerReset(lexer, text), text)

\* --- the texts of a scanner session ---

\* what stands before and after a comment or a division sign
Pres == { <<>>, <<"1">>, <<"x", " ">> }
Posts == { <<>>, <<"2">>, <<" ", "y">>, <<"\n", "3">> }

\* // to the end of the line, and /* ... */
LineComments == { <<"/", "/">>, <<"/", "/", "a", "+", "\"">>, <<"/", "/", " ", "/", "*", "1">> }
BlockComments ==
  { <<"/", "*", "*", "/">>, <<"/", "*", "a", "=", "1", "*", "/">>,
    <<"/", "*", "/", "/", "\n", "$", "*", "*", "/">> }

\* a line comment ends with its line: the end of the text or the newline
LineCommented(pre, c, post) ==
  IF post = <<>> THEN pre \o c ELSE pre \o c \o <<"\n">> \o post
BlockCommented(pre, c, post) == pre \o c \o post
Divided(pre, post) == pre \o <<"/">> \o post

CommentTexts ==
  { LineCommented(pre, c, post) : pre \in Pres, c \in LineComments, post \in Posts } \cup
  { BlockCommented(pre, c, post) : pre \in Pres, c \in BlockComments, post \in Posts } \cup
  { Divided(pre, post) : pre \in Pres, post \in Posts }

NumeralTexts ==
  { <<"1", "2">>, <<"1", ".", "5">>, <<"1", ".", "2", ".", "3">>, <<".">>, <<"1", ".">>,
    <<".", "5">>, <<"0", "7", "+", "1", ".", "5">>, <<"1", ".", ".", "2">> }

StringTexts ==
  { <<"\"", "a", "\"">>, <<"\"", "a">>, <<"\"">>, <<"\"", "\"">>, <<"x", "=", "\"", "a", " ", "1">>,
    <<"\"", "a", "\"", "\"", "b">> }

OtherTexts ==
  { <<>>, <<" ">>, <<"x", " ", "=", " ", "5">>, <<"a", "\n", "b">>, <<"$">>, <<"1", "!">>,
    <<"<", "=", ">", "=", "=", "=", "!", "=">>, <<"<", ">", "=">>,
    <<"i", "f", " ", "t", "r", "u", "e", ":", "{", "}">>, <<"e", "l", "i", "f", " ", "e", "l", "s", "e">>,
    <<"[", "f", "a", "l", "s", "e", ",", "_", "a", "1", "]">>, <<"(", "1", "-", "2", ")", "*", "3">> }

ScanTexts == CommentTexts \cup NumeralTexts \cup StringTexts \cup OtherTexts

NextScan ==
  \/ ScanNext
  \/ PkgScanNext
  \/ \E text \in ScanTexts : ScanReset(text)
  \/ \E text \in ScanTexts : PkgScanReset(text)

\* a Lexer of either program, constructed on a text, called, reset, called again
SpecScan ==
  /\ \E text \in ScanTexts : ScanInit(text) \/ PkgScanInit(text)
  /\ [][NextScan]_vars

(* ------------------------------------------------------------------ *)
(* Sessions of list and dict literals with src/kex_main.py              *)
(* ------------------------------------------------------------------ *)

\* items with ", " between them
RECURSIVE CommaJoin(_)
CommaJoin(items) ==
  IF items = <<>> THEN <<>>
  ELSE IF Len(items) = 1 THEN items[1]
  ELSE items[1] \o <<",", " ">> \o CommaJoin(Tail(items))

\* [e1, ..., en]
ListOf(es) == <<"[">> \o CommaJoin(es) \o <<"]">>

\* {k1: v1, ..., kn: vn} for pairs <<k, v>>
DictOf(ps) ==
  <<"{">> \o CommaJoin([j \in 1..Len(ps) |-> ps[j][1] \o <<":", " ">> \o ps[j][2]]) \o <<"}">>

\* elements: values of several types, a bound and an unbound name, two failing
\* operations with different errors, a nested list
ElementTexts ==
  { <<"1">>, <<"\"", "a", "\"">>, <<"x">>, <<"y">>, <<"1", " ", "/", " ", "0">>,
    <<"2", " ", "+", " ", "\"", "b", "\"">>, <<"[", "x", "]">> }

\* what the list literals of a session hold: none, one, two or three elements
ListContents ==
  { <<>> } \cup
  { <<e>> : e \in ElementTexts } \cup
  { <<e1, e2>> : e1 \in ElementTexts, e2 \in ElementTexts } \cup
  { <<e1, <<"x">>, e3>> :
      e1 \in { <<"1">>, <<"y">> }, e3 \in { <<"\"", "a", "\"">>, <<"1", " ", "/", " ", "0">> } }

ListLines == { ListOf(es) : es \in ListContents }

\* key literals of every kind
StringKeys == { <<"\"", "a", "\"">>, <<"\"", "b", "\"">> }
KeyTexts ==
  StringKeys \cup { <<"\"", "1", "\"">>, <<"1">>, <<"t", "r", "u", "e">>, <<"1", ".", "0">>, <<"0">> }

\* {k1: 1, k2: 2}
Dict2(k1, k2) == DictOf(<<<<k1, <<"1">>>>, <<k2, <<"2">>>>>>)
\* {k1: 1, k2: 2, k3: 3}
Dict3(k1, k2, k3) == DictOf(<<<<k1, <<"1">>>>, <<k2, <<"2">>>>, <<k3, <<"3">>>>>>)

DictLines ==
  { DictOf(<<>>) } \cup
  { Dict2(k1, k2) : k1 \in KeyTexts, k2 \in KeyTexts } \cup
  { Dict3(k1, k2, k3) : k1 \in StringKeys, k2 \in StringKeys, k3 \in StringKeys }

\* lines whose [, { or ( is never closed
UnclosedLines ==
  { <<"[">>, <<"[", "1">>, <<"[", "1", ",">>, <<"[", "x", " ", "+">>, <<"(">>, <<"(", "1">>,
    <<"{">>, <<"{", "1">>, <<"{", "1", ":">>, <<"{", "1", ":", " ", "2">>,
    <<"{", "1", ":", " ", "2", ",">>, <<"x", " ", "=", " ", "[">>,
    <<"x", " ", "=", " ", "(", "1">> }

\* literals with a comma too many or too few, and two that are well separated
SeparatorLines ==
  { <<"[", "1", ",", " ", "2", ",", "]">>, <<"[", "1", " ", "2", "]">>,
    <<"[", "1", ",", ",", " ", "2", "]">>, <<"[", ",", "]">>, <<"[", "1", ",", "]">>,
    <<"{", "\"", "a", "\"", ":", " ", "1", ",", "}">>,
    <<"{", "\"", "a", "\"", ":", " ", "1", " ", "\"", "b", "\"", ":", " ", "2", "}">>,
    <<"{", "\"", "a", "\"", ":", " ", "1", ",", ",", " ", "\"", "b", "\"", ":", " ", "2", "}">>,
    <<"{", ",", "}">>, <<"[", "1", ",", " ", "2", "]">>,
    <<"{", "\"", "a", "\"", ":", " ", "1", ",", " ", "\"", "b", "\"", ":", " ", "2", "}">> }

LiteralLines ==
  ControlLines \cup ListLines \cup DictLines \cup UnclosedLines \cup SeparatorLines \cup
  { <<"x", " ", "=", " ", "5">>, <<"x", " ", "=", " ", "\"", "a", "\"">> }

NextLiteral ==
  \/ ReadEOF
  \/ \E text \in LiteralLines : ReadBlank(text)
  \/ \E text \in LiteralLines : ReadExit(text)
  \/ \E text \in LiteralLines : ReadEval(text)

SpecLiteral == Init /\ [][NextLiteral]_vars

(* ------------------------------------------------------------------ *)
(* Properties                                                           *)
(* ------------------------------------------------------------------ *)

\* what the loop of src/kex_main.py would get for the line text in the current state
Evaluation(text) == FirstPullAndInterpret(TokenStream(ReplReset(lexer, text)), symbols)

\* the value of a literal or a name on its own, with the bindings the last line found
ValueBefore(text) == FirstPullAndInterpret(TokenStream(LexerInit(text)), before)

\* the last iteration visited an Assign node to completion
AssignedNow == outcome.st = "ok" /\ tree.k = "Assign"

\* C1: in a session, evaluating an identifier yields the value of the most recent
\* assignment to it that was evaluated successfully; an assignment x = e evaluates e
\* with the bindings it finds, binds the result under x over any prior binding,
\* returns the value it assigned, and the binding stays for the lines that follow.
C1_AssignmentPersists ==
  /\ \A n \in DOMAIN assigned :
       Evaluation(n).st = "ok" /\ Evaluation(n).value = assigned[n]
  /\ AssignedNow =>
       /\ Visit(tree.right, before).st = "ok"
       /\ outcome.value = Visit(tree.right, before).value
       /\ symbols = [n \in (DOMAIN before) \cup {tree.left.value.s} |->
                       IF n = tree.left.value.s THEN outcome.value ELSE before[n]]
  /\ (outcome.st = "ok" /\ line \in Names) => outcome.value = assigned[line]

\* an assignment to a name that was bound to another value has been evaluated
C1_Witness ==
  /\ AssignedNow
  /\ tree.left.value.s \in DOMAIN before
  /\ before[tree.left.value.s] # symbols[tree.left.value.s]

\* C2: when a line raises an error while it is scanned, parsed or evaluated, the
\* bindings after the line are the bindings before it, the loop has caught the error
\* and is back at its prompt, where the next line is scanned from its start and
\* evaluated.
C2_ErrorKeepsEnvironment ==
  outcome.st = "raise" =>
    /\ symbols = before
    /\ status = "prompt"
    /\ Evaluation(<<"5">>).st = "ok" /\ Evaluation(<<"5">>).value = IntV(5)

\* an assignment to a bound name has failed
C2_Witness ==
  /\ outcome.st = "raise"
  /\ Len(line) > 1 /\ line[1] \in {"x", "y"} /\ line[3] = "="
  /\ <<line[1]>> \in DOMAIN before
  /\ outcome.exc.stage = "visit"

\* the arithmetic the operator lexemes stand for
ApplyOp(op, l, r) ==
  CASE op = <<"+">> -> PyAdd(l, r)
    [] op = <<"-">> -> PySub(l, r)
    [] op = <<"*">> -> PyMul(l, r)
    [] op = <<"/">> -> PyTrueDiv(l, r)

\* C3: multiplication and division bind tighter than addition and subtraction and
\* parentheses override it: a op1 b op2 c is a op1 (b op2 c), and (a op1 b) op2 c is
\* as grouped, for op1 one of + - and op2 one of * /.
C3_Precedence ==
  \A a \in OperandsA, op1 \in AddOps, b \in OperandsB, op2 \in MulOps, c \in OperandsC :
    /\ line = Plain(a, op1, b, op2, c) =>
         /\ outcome.st = "ok"
         /\ outcome.value =
              ApplyOp(op1, ValueBefore(a).value,
                      ApplyOp(op2, ValueBefore(b).value, ValueBefore(c).value))
    /\ line = Grouped(a, op1, b, op2, c) =>
         /\ outcome.st = "ok"
         /\ outcome.value =
              ApplyOp(op2, ApplyOp(op1, ValueBefore(a).value, ValueBefore(b).value),
                      ValueBefore(c).value)

\* 1 + 2 * 3 has been evaluated to 7
C3_Witness ==
  /\ line = Plain(<<"1">>, <<"+">>, <<"2">>, <<"*">>, <<"3">>)
  /\ outcome.value = IntV(7)

\* C4: one input is evaluated statement by statement to its end: no token is left
\* unparsed when the evaluation returns, and x = 1 x = 2 leaves x bound to 2 and
\* returns 2.
C4_WholeInputEvaluated ==
  /\ outcome.st = "ok" => current_token.type = "EOF"
  /\ (outcome.st = "ok" /\ line = Join(<<<<"x">>, <<"=">>, <<"1">>, <<"x">>, <<"=">>, <<"2">>>>)) =>
       /\ symbols[<<"x">>] = IntV(2)
       /\ outcome.value = IntV(2)

\* the comparison a relational lexeme stands for, on the numerals of CondOperands
Holds(op, a, b) ==
  CASE op = <<"=", "=">> -> PyInt(a) = PyInt(b)
    [] op = <<"!", "=">> -> PyInt(a) # PyInt(b)
    [] op = <<"<">> -> PyInt(a) < PyInt(b)
    [] op = <<"<", "=">> -> PyInt(a) <= PyInt(b)
    [] op = <<">">> -> PyInt(a) > PyInt(b)
    [] op = <<">", "=">> -> PyInt(a) >= PyInt(b)

\* the bindings with x bound to the integer n
WithX(syms, n) ==
  [m \in (DOMAIN syms) \cup {<<"x">>} |-> IF m = <<"x">> THEN IntV(n) ELSE syms[m]]

\* C5: a conditional runs exactly the body of its first truthy branch, the else body
\* when no branch is truthy, and nothing when there is no else either: after
\* if a op b: { x = 1 } elif b op a: { x = 2 } else: { x = 3 } only the assignment of
\* the chosen branch has been made, and after if a op b: { x = 1 } with a false
\* condition the bindings are unchanged and the result is none.
C5_FirstTruthyBranchRuns ==
  \A a \in CondOperands, op \in RelOps, b \in CondOperands :
    /\ line = IfElifElse(a, op, b) =>
         /\ outcome.st = "ok"
         /\ symbols = WithX(before, IF Holds(op, a, b) THEN 1
                                    ELSE IF Holds(op, b, a) THEN 2 ELSE 3)
    /\ line = IfOnly(a, op, b) =>
         /\ outcome.st = "ok"
         /\ IF Holds(op, a, b) THEN symbols = WithX(before, 1)
            ELSE symbols = before /\ outcome.value = NoneV

\* the last line was left op right for operands that evaluate on their own
IsBinary(l, op, r) ==
  /\ line = Binary(l, op, r)
  /\ ValueBefore(l).st = "ok"
  /\ ValueBefore(r).st = "ok"

\* the operand types the specification lets an arithmetic operator take
Permitted(op, lv, rv) ==
  \/ lv.t \in {"int", "float"} /\ rv.t \in {"int", "float"}
  \/ lv.t = "str" /\ rv.t = "str" /\ op = <<"+">>

\* C6: a binary operation whose operands are neither both Integer or Float nor both
\* String under + fails with TypeError and produces no value.
C6_TypeErrorOtherwise ==
  \A l \in LeftOperands, op \in BinaryOps, r \in RightOperands :
    (IsBinary(l, op, r) /\ ~Permitted(op, ValueBefore(l).value, ValueBefore(r).value)) =>
      /\ outcome.st = "raise"
      /\ outcome.exc.type = "TypeError"
      /\ outcome.value = NoneV

\* C7: arithmetic on two Integer operands yields an Integer for each of + - * /, and
\* the result is a Float exactly when an operand is a Float.
C7_IntegerStaysInteger ==
  \A l \in LeftOperands, op \in BinaryOps, r \in RightOperands :
    (/\ IsBinary(l, op, r)
     /\ ValueBefore(l).value.t \in {"int", "float"}
     /\ ValueBefore(r).value.t \in {"int", "float"}
     /\ ~(op = <<"/">> /\ PyEq(ValueBefore(r).value, IntV(0)))) =>
      /\ outcome.st = "ok"
      /\ outcome.value.t \in {"int", "float"}
      /\ outcome.value.t = "float" <=>
           (ValueBefore(l).value.t = "float" \/ ValueBefore(r).value.t = "float")

\* a value is the Integer 0 or the Float 0.0
IsZero(v) == v.t \in {"int", "float"} /\ PyEq(v, IntV(0))

\* C8: a division whose left operand is a number and whose right operand evaluates
\* to zero (written as 0 or 0.0, read from a variable, or computed) fails with
\* ZeroDivisionError, produces no value and changes no binding, also as the right-hand
\* side of an assignment.
C8_DivisionByZero ==
  \A r \in RightOperands :
    (ValueBefore(r).st = "ok" /\ IsZero(ValueBefore(r).value)) =>
      /\ \A l \in LeftOperands :
           (IsBinary(l, <<"/">>, r) /\ ValueBefore(l).value.t \in {"int", "float"}) =>
             /\ outcome.st = "raise"
             /\ outcome.exc.type = "ZeroDivisionError"
             /\ outcome.value = NoneV
             /\ symbols = before
      /\ line = Join(<<<<"y">>, <<"=">>, Binary(<<"2">>, <<"/">>, r)>>) =>
             /\ outcome.st = "raise"
             /\ outcome.exc.type = "ZeroDivisionError"
             /\ outcome.value = NoneV
             /\ symbols = before

\* 2.5 has been divided by a variable that holds 0.0
C8_Witness ==
  /\ line = Binary(<<"2", ".", "5">>, <<"/">>, <<"x">>)
  /\ <<"x">> \in DOMAIN before
  /\ before[<<"x">>] = FloatV(0, 1)
  /\ outcome.st = "raise"

\* C9: evaluating an identifier fails with NameError naming it exactly when the name
\* has no binding; a bound name evaluates to the value it is bound to, whatever the
\* value (0, 0.0, false, the empty string, list and dict included).
C9_NameErrorIffUnbound ==
  /\ \A n \in Names :
       IF n \in DOMAIN symbols
       THEN Evaluation(n).st = "ok" /\ Evaluation(n).value = symbols[n]
       ELSE /\ Evaluation(n).st = "raise"
            /\ Evaluation(n).exc.type = "NameError"
            /\ Evaluation(n).exc.name = n
  /\ (line \in Names /\ outcome.st \in {"ok", "raise"}) =>
       IF line \in DOMAIN before
       THEN outcome.st = "ok" /\ outcome.value = before[line]
       ELSE outcome.st = "raise" /\ outcome.exc.type = "NameError" /\ outcome.exc.name = line

\* a name bound to a falsy value has been looked up
C9_Witness ==
  /\ line \in Names
  /\ line \in DOMAIN before
  /\ ~PyTruthy(before[line])
  /\ outcome.st = "ok"

\* a tree with a place where a factor is missing
RECURSIVE HasHole(_)
HasHole(node) ==
  CASE node.k = "None" -> TRUE
    [] node.k \in {"BinOp", "Assign"} -> HasHole(node.left) \/ HasHole(node.right)
    [] node.k = "ListExpr" -> \E k \in 1..Len(node.elements) : HasHole(node.elements[k])
    [] node.k = "DictExpr" -> \E k \in 1..Len(node.pairs) : HasHole(node.pairs[k][2])
    [] OTHER -> FALSE

\* lines in which a factor is required where the lookahead cannot begin one
MissingFactorLines ==
  { <<"1", " ", "+">>, <<")">>, <<"x", " ", "=">>, <<"+", " ", "1">>,
    <<"x", " ", "=", " ", ")">>, <<"x", " ", "=", " ", "1", " ", "+">> }

\* C10: when the lookahead cannot begin a factor where one is required the parse call
\* fails at once with a parse error: parse returns no tree, so no returned tree lacks
\* a factor, and nothing is visited.
C10_MissingFactorIsParseError ==
  /\ ~HasHole(tree)
  /\ line \in MissingFactorLines =>
       /\ outcome.st = "raise"
       /\ outcome.exc.stage = "parse"
       /\ tree = NoTree

\* what the Lexer hands out call after call from the state its last reset (or its
\* construction) left it in, up to the first EOF or exception
SinceReset == IF program = MainProgram THEN TokenStream(before) ELSE PkgTokenStream(before)

\* the calls made since the reset have gone past the first EOF of the stream ts
PastEndOfInput(ts) == nread > Len(ts) /\ ts[Len(ts)].tok.type = "EOF"

\* after such calls the last token is the EOF first returned and the cursor is where
\* that EOF left it
EndOfInputRepeats(ts) ==
  PastEndOfInput(ts) =>
    /\ outcome.st = "ok"
    /\ current_token = ts[Len(ts)].tok
    /\ lexer = ts[Len(ts)].s

\* C11: once get_next_token has returned EOF, every later call without a reset in
\* between returns EOF again and leaves position, line and column of the lexer
\* unchanged, in the lexer of src/kex_main.py and in that of src/Kex.
C11_EndOfInputRepeats == EndOfInputRepeats(SinceReset)

\* the package's lexer, run past the end of the text by an unterminated string, has
\* been called twice more after its first EOF
C11_Witness ==
  /\ program = PkgProgram
  /\ line = <<"\"", "a">>
  /\ lexer.pos > Len(line)
  /\ nread = Len(SinceReset) + 2
  /\ current_token.type = "EOF"

\* what a freshly constructed Lexer of the running program hands out for the text
FreshStream ==
  IF program = MainProgram THEN TokenStream(LexerInit(line)) ELSE PkgTokenStream(LexerInit(line))

\* the call that was made last ended as the same call on the stream ts: the same
\* token (type, value, line and column) or the same exception
SameAsStream(ts) ==
  (nread >= 1 /\ nread <= Len(ts)) =>
    IF ts[nread].tok.type = "<raise>"
    THEN outcome.st = "raise" /\ outcome.exc = ts[nread].tok.exc
    ELSE outcome.st = "ok" /\ current_token = ts[nread].tok

\* C12: after a reset for a new input (Lexer.reset of the package, the per-line reset
\* of main in src/kex_main.py) the lexer hands out for a text exactly the tokens, with
\* type, value, line and column, that a freshly constructed lexer hands out for it,
\* whatever was scanned before the reset.
C12_ResetScansAsFresh == status = "scanning" => SameAsStream(FreshStream)

\* texts whose only double quote opens a string that is never closed
UnterminatedTexts == { <<"\"", "a">>, <<"\"">>, <<"x", "=", "\"", "a", " ", "1">> }

\* C13: scanning a double quote with no closing double quote before the end of the
\* input fails with the unterminated-string error and produces no STRING token, in
\* the lexer of src/kex_main.py and in that of src/Kex.
C13_UnterminatedStringFails ==
  (status = "scanning" /\ line \in UnterminatedTexts) =>
    /\ (nread >= 1 /\ outcome.st = "ok") => current_token.type # "STRING"
    /\ nread >= Len(SinceReset) =>
         outcome.st = "raise" /\ outcome.exc.what = "Unterminated string"

\* C14: in a dict literal that repeats a key the Dict holds for the key the value of
\* the last pair with it, and the key is enumerated at the place of its last
\* occurrence: {k1: 1, k2: 2, k1: 3} is the Dict of k2 with 2, then k1 with 3.
C14_RepeatedKeyMovesToLastPlace ==
  \A k1 \in StringKeys, k2 \in StringKeys :
    (k1 # k2 /\ line = Dict3(k1, k2, k1)) =>
      /\ outcome.st = "ok"
      /\ outcome.value = DictV(<< <<ValueBefore(k2).value, IntV(2)>>,
                                  <<ValueBefore(k1).value, IntV(3)>> >>)

\* C15: every key of a Dict that a dict literal evaluates to is a String, so keys
\* written as different literals are different entries: {k1: 1, k2: 2} with k1 and k2
\* different texts (1 and true, 1 and 1.0, 1 and "1") has two entries.
C15_KeysAreStrings ==
  /\ (outcome.st = "ok" /\ outcome.value.t = "dict") =>
       \A j \in 1..Len(outcome.value.kv) : outcome.value.kv[j][1].t = "str"
  /\ \A k1 \in KeyTexts, k2 \in KeyTexts :
       (k1 # k2 /\ line = Dict2(k1, k2)) =>
         outcome.st = "ok" /\ Len(outcome.value.kv) = 2

\* the places of the elements of es that fail when evaluated on their own
Failing(es) == { j \in 1..Len(es) : ValueBefore(es[j]).st # "ok" }

\* the least element of a nonempty set of numbers
Least(S) == CHOOSE j \in S : \A m \in S : j <= m

\* C16: a list literal [e1, ..., en] evaluates to the List of the n values of its
\* elements in source order, [] to the empty List; the elements are evaluated from
\* left to right, so when elements fail the error is that of the leftmost failing one.
C16_ListInSourceOrder ==
  \A es \in ListContents :
    line = ListOf(es) =>
      IF Failing(es) = {}
      THEN /\ outcome.st = "ok"
           /\ outcome.value = ListV([j \in 1..Len(es) |-> ValueBefore(es[j]).value])
           /\ Len(outcome.value.l) = Len(es)
      ELSE /\ outcome.st = "raise"
           /\ outcome.exc = ValueBefore(es[Least(Failing(es))]).exc
           /\ symbols = before

\* [y, 1 / 0] with y unbound has raised the NameError of its first element
C16_Witness ==
  /\ line = ListOf(<< <<"y">>, <<"1", " ", "/", " ", "0">> >>)
  /\ outcome.st = "raise"
  /\ outcome.exc.type = "NameError"

\* the characters of a comment replaced by blanks, its newlines kept
Blanked(c) == [j \in 1..Len(c) |-> IF c[j] = "\n" THEN "\n" ELSE " "]

\* what the Lexer of src/kex_main.py scans since the last reset when its text is t
StreamOf(t) == TokenStream([before EXCEPT !.text = t])

\* the call just made has given what ts gives at the same call: the same exception, or
\* a token of the same type, value and line, and of the same column unless it is EOF
SameTokenAs(ts) ==
  (nread >= 1 /\ nread <= Len(ts)) =>
    IF ts[nread].tok.type = "<raise>"
    THEN outcome.st = "raise" /\ outcome.exc = ts[nread].tok.exc
    ELSE /\ outcome.st = "ok"
         /\ current_token.type = ts[nread].tok.type
         /\ current_token.value = ts[nread].tok.value
         /\ current_token.line = ts[nread].tok.line
         /\ current_token.type # "EOF" => current_token.column = ts[nread].tok.column

\* the types and values of the tokens of ts before its last one
RECURSIVE Kinds(_)
Kinds(ts) ==
  IF Len(ts) <= 1 THEN <<>>
  ELSE <<[type |-> ts[1].tok.type, value |-> ts[1].tok.value]>> \o Kinds(Tail(ts))

\* the call just made has given a token of the type and value that ks lists for it
SameKindAs(ks) ==
  (nread >= 1 /\ nread <= Len(ks)) =>
    /\ outcome.st = "ok"
    /\ [type |-> current_token.type, value |-> current_token.value] = ks[nread]

\* C17: the characters of a // comment (to the end of its line) and of a /* ... */
\* comment give no tokens and leave the tokens before and after the comment as they
\* are: every call gives what it gives on the text with the comment blanked out. A /
\* followed by neither / nor * gives one DIV token, and what follows it is scanned as
\* it is on its own.
C17_CommentsGiveNoTokens ==
  (program = MainProgram /\ status = "scanning") =>
    /\ \A pre \in Pres, post \in Posts :
         /\ \A c \in LineComments :
              line = LineCommented(pre, c, post) =>
                SameTokenAs(StreamOf(LineCommented(pre, Blanked(c), post)))
         /\ \A c \in BlockComments :
              line = BlockCommented(pre, c, post) =>
                SameTokenAs(StreamOf(BlockCommented(pre, Blanked(c), post)))
         /\ line = Divided(pre, post) =>
              SameKindAs(Kinds(StreamOf(pre))
                           \o <<[type |-> "DIV", value |-> StrV(<<"/">>)]>>
                           \o Kinds(TokenStream(LexerInit(post)))
                           \o <<[type |-> "EOF", value |-> NoneV]>>)

\* after x, a block comment that holds // and a newline and $, and a blank, the name y
\* has been scanned as the second token
C17_Witness ==
  /\ program = MainProgram
  /\ line = BlockCommented(<<"x", " ">>, <<"/", "*", "/", "/", "\n", "$", "*", "*", "/">>, <<" ", "y">>)
  /\ nread = 2
  /\ current_token.type = "IDENTIFIER"
  /\ current_token.value = StrV(<<"y">>)
  /\ current_token.line = before.line + 1

\* C18: a numeral is a run of digits with at most one dot: the first call on 1.5 gives
\* a FLOAT token, on 12 an INTEGER token, and on 1.2.3 it stops before the second
\* dot, so it does not consume all five characters into one numeral.
C18_NumeralHasAtMostOneDot ==
  (status = "scanning" /\ nread = 1) =>
    /\ line = <<"1", ".", "2", ".", "3">> => lexer.pos - before.pos <= 3
    /\ line = <<"1", ".", "5">> => outcome.st = "ok" /\ current_token.type = "FLOAT"
    /\ line = <<"1", "2">> => outcome.st = "ok" /\ current_token.type = "INTEGER"

\* what the lexer hands out, call after call, once it has been reset to text
StreamAfterResetTo(text) ==
  IF program = MainProgram THEN TokenStream([lexer EXCEPT !.text = text, !.pos = 0])
  ELSE PkgTokenStream(LexerInit(text))

\* what the iteration gives when the parser's lookahead is the first token of ts
EvaluatedOn(ts) ==
  IF program = MainProgram THEN FirstPullAndInterpret(ts, symbols)
  ELSE PkgResetAndInterpret(ts, symbols)

\* what the iteration that reads text gives when the scanner is first reset to text
\* and the parser's lookahead is the first token of text
AfterResetTo(text) == EvaluatedOn(StreamAfterResetTo(text))

\* the iteration that read text has ended as it does after a reset to text
EndedAsAfterResetTo(text) ==
  LET r == AfterResetTo(text) IN
  /\ outcome' = Outcome(r.st, r.value, r.exc)
  /\ symbols' = r.symbols
  /\ tree' = r.tree

\* C19: in the loop of either program a line that stripped and lowered is exit ends
\* the loop with nothing scanned or evaluated; a line that is empty when stripped is
\* skipped, and scanner, lookahead and environment stay as they are; any other line is
\* evaluated after the scanner has been given the line and the lookahead is the
\* line's first token.
C19_ExitBlankOrEvaluate ==
  [][ (nread' = nread + 1 /\ outcome'.st # "eof") =>
        IF LowerStr(Strip(line')) = <<"e", "x", "i", "t">>
        THEN /\ status' = "exited"
             /\ outcome'.st = "exit"
             /\ tree' = NoTree
             /\ UNCHANGED <<symbols, lexer, current_token>>
        ELSE IF Strip(line') = <<>>
        THEN /\ status' = "prompt"
             /\ outcome'.st = "skipped"
             /\ tree' = NoTree
             /\ UNCHANGED <<symbols, lexer, current_token>>
        ELSE /\ outcome'.st \notin {"exit", "skipped"}
             /\ lexer'.text = line'
             /\ EndedAsAfterResetTo(line') ]_vars

\* after x = 5, the line x has been evaluated from its start and has given 5
C19_Witness ==
  /\ program = MainProgram
  /\ nread = 2
  /\ line = <<"x">>
  /\ lexer.text = <<"x">>
  /\ outcome.st = "ok"
  /\ outcome.value = IntV(5)

\* C20: for numbers a and b each of == != < <= > >= gives the Bool of the comparison
\* of a and b, never none: the line a op b gives it as its result, and x = a op b
\* gives it and binds x to it.
C20_ComparisonGivesBool ==
  \A a \in CondOperands, op \in RelOps, b \in CondOperands :
    /\ line = Compared(a, op, b) =>
         /\ outcome.st = "ok"
         /\ outcome.value = BoolV(Holds(op, a, b))
    /\ line = AssignCompared(a, op, b) =>
         /\ outcome.st = "ok"
         /\ outcome.value = BoolV(Holds(op, a, b))
         /\ symbols # before

\* C21: the scan, parse and evaluation of every line ends, with a value or with an
\* error: no line leaves the program inside a loop that never ends, and a line whose
\* [, { or ( is never closed ends with an error.
C21_EveryLineTerminates ==
  /\ status # "hung"
  /\ outcome.st # "hang"
  /\ (nread >= 1 /\ line \in UnclosedLines) => outcome.st = "raise"

\* a comma after the last element or pair, and no comma between two elements
MisseparatedLines ==
  { <<"[", "1", ",", " ", "2", ",", "]">>, <<"[", "1", " ", "2", "]">>,
    <<"{", "\"", "a", "\"", ":", " ", "1", ",", "}">> }

\* C22: a list or dict literal is accepted only with one comma between consecutive
\* elements or pairs and none after the last: [1, 2,], [1 2] and {"a": 1,} are parse
\* errors, and the empty literals [] and {} are accepted.
C22_CommasSeparate ==
  /\ line \in MisseparatedLines => outcome.st = "raise" /\ outcome.exc.stage = "parse"
  /\ line = ListOf(<<>>) => outcome.st = "ok" /\ outcome.value = ListV(<<>>)
  /\ line = DictOf(<<>>) => outcome.st = "ok" /\ outcome.value = DictV(<<>>)

\* lines whose = follows something other than a bare name
OtherLeftSides ==
  { <<"(", "x", ")", " ", "=", " ", "5">>, <<"(", "y", ")", " ", "=", " ", "x">>,
    <<"x", " ", "+", " ", "1", " ", "=", " ", "5">>, <<"\"", "x", "\"", " ", "=", " ", "5">> }

\* C23: a line binds a name only when it begins with a bare name immediately followed
\* by =: x = 5 binds x to 5, and a line with any other left side, (x) = 5 or
\* x + 1 = 5, is no assignment and leaves the environment as it was.
C23_OnlyBareNameAssigns ==
  /\ line = <<"x", " ", "=", " ", "5">> =>
       outcome.st = "ok" /\ symbols = WithX(before, 5)
  /\ line \in OtherLeftSides => symbols = before /\ tree.k # "Assign"

\* C24: a line that is no Assign statement (a literal, a name, a binary operation, a
\* list or dict literal), whether it gives a value or fails, leaves the environment as
\* it was, and so does an assignment that fails; an assignment to x changes the
\* binding of x and of no other name.
C24_OnlyAssignChangesItsName ==
  /\ (tree.k # "Assign" \/ outcome.st # "ok") => symbols = before
  /\ AssignedNow =>
       \A n \in (DOMAIN before) \cup (DOMAIN symbols) :
         n # tree.left.value.s =>
           n \in DOMAIN before /\ n \in DOMAIN symbols /\ symbols[n] = before[n]

\* a name has been assigned while another name was bound
C24_Witness ==
  /\ AssignedNow
  /\ \E n \in DOMAIN before : n # tree.left.value.s /\ symbols[n] = before[n]
  /\ symbols # before

\* in the iteration that read text the parser has made no more calls of
\* get_next_token than the stream of text has entries, and the lexer is where the
\* last of them left it
PullsWithinStreamOf(text) ==
  LET ts == StreamAfterResetTo(text)
      r == AfterResetTo(text) IN
  r.i <= Len(ts) /\ lexer' = ts[r.i].s

C26_NoChainedComparison ==
  \A a \in ChainOperands, op1 \in RelOps, op2 \in RelOps, c \in ChainOperands :
    /\ (status = "parsed" /\ line = Chained(a, op1, <<"2">>, op2, c)) =>
         /\ outcome.st = "ok"
         /\ tree.k = "BinOp"
         /\ tree.left.k # "BinOp"
         /\ current_token.type \in RelTypes
    /\ (status = "parsed" /\ line = IfChained(a, op1, <<"2">>, op2, c)) =>
         /\ outcome.st = "raise"
         /\ outcome.exc.what = "Parser error"
         /\ outcome.exc.expected = "COLON"
         /\ outcome.exc.got \in RelTypes

====
